---- MODULE Spec2Model ----
(***************************************************************************)
(* Model of the MAMA OpenClaw plugin (src/index.ts, src/utils.ts): the     *)
(* lazy initializer initMAMA, the six lifecycle handlers registered by     *)
(* register(api), and the pure helpers of utils.ts.                        *)
(*                                                                         *)
(* JavaScript strings are TLA+ strings.  A value of type `string | null`   *)
(* is the empty tuple (null / undefined) or a one-element tuple holding    *)
(* the string.  Times are milliseconds since the epoch.                    *)
(***************************************************************************)
EXTENDS Integers, Naturals, Sequences, FiniteSets, TLC

VARIABLES
    initialized,                \* index.ts:99
    mama,                       \* index.ts:100  (<<>> = null)
    initialDbPath,              \* index.ts:101
    MAMA_DB_PATH,               \* process.env.MAMA_DB_PATH
    compactionOccurred,         \* index.ts:104
    sessionStartedAt,           \* index.ts:107
    lastUserPrompt,             \* index.ts:108
    lastCompactionAt,           \* index.ts:109
    lastAutoCaptureCandidates,  \* index.ts:110
    now,                        \* the process clock, Date.now()
    ticks,                      \* number of clock advances so far
    store,                      \* the backend's latest saved checkpoint
    last,                       \* what the most recently completed handler did
    notesSinceCompaction,       \* recovery notes returned since the last before_compaction event
    noteDue,                    \* whether a before_compaction event awaits its before_agent_start
    detections,                 \* the candidates detected since the last reset, most recently detected first
    pf,                         \* one evaluation of a pure helper of utils.ts
    flight                      \* the calls, of initMAMA or of a handler, made without awaiting the one before

vars == <<initialized, mama, initialDbPath, MAMA_DB_PATH, compactionOccurred,
          sessionStartedAt, lastUserPrompt, lastCompactionAt,
          lastAutoCaptureCandidates, now, ticks, store, last,
          notesSinceCompaction, noteDue, detections, pf, flight>>

initVars    == <<initialized, mama, initialDbPath, MAMA_DB_PATH>>
sessionVars == <<compactionOccurred, sessionStartedAt, lastUserPrompt,
                 lastCompactionAt, lastAutoCaptureCandidates>>

-----------------------------------------------------------------------------
(* Bounds *)

\* calls made without awaiting the one before
MaxCalls == 2
\* clock advances in a run
MaxTicks == 1
\* how far around now - checkpointTime the thresholds of a direct evaluation range
MaxSlack == 8

-----------------------------------------------------------------------------
(* string | null *)

None == <<>>
Some(v) == <<v>>
IsSome(o) == o # <<>>
Val(o) == o[1]

\* JavaScript truthiness of a `string | null | undefined`
Truthy(o) == IsSome(o) /\ Val(o) # ""

\* String.prototype.includes
Includes(s, sub) ==
    \E i \in 1..(Len(s) - Len(sub) + 1) : SubSeq(s, i, i + Len(sub) - 1) = sub

\* String.prototype.startsWith
StartsWith(s, pre) == Len(s) >= Len(pre) /\ SubSeq(s, 1, Len(pre)) = pre

-----------------------------------------------------------------------------
(* utils.ts *)

truncateTextMutNoCut(text, maxLen) ==
    IF Len(text) <= maxLen THEN text ELSE text \o "..."

truncateText(text, maxLen) ==
    IF Len(text) <= maxLen THEN text ELSE SubSeq(text, 1, maxLen) \o "..."

-----------------------------------------------------------------------------
(* The clock and Date *)

DEFAULT_THRESHOLD_MS == 5 * 60 * 1000

\* The clock starts at 0.  Its first advance is by the recency threshold and
\* the later ones by one millisecond, so that two instants can be less than,
\* exactly, or more than the threshold apart.
ClockStep(k) == IF k = 1 THEN DEFAULT_THRESHOLD_MS ELSE 1

RECURSIVE ClockAt(_)
ClockAt(k) == IF k = 0 THEN 0 ELSE ClockAt(k - 1) + ClockStep(k)

ClockValues == {ClockAt(k) : k \in 0..MaxTicks}

\* The instant of a checkpoint that something other than this process wrote.
EXTERNAL_INSTANT == 1

\* The instants a timestamp of the model can denote.
Instants == ClockValues \cup {EXTERNAL_INSTANT}

\* Date.prototype.toISOString: a textual rendering of the instant, written
\* here as "T+<ms>Z" in place of the calendar form.
toISOString(ms) == "T+" \o ToString(ms) \o "Z"

\* new Date(str).getTime(): the instant a timestamp string denotes, or NaN
\* when the string is not a date.
DateGetTime(str) ==
    IF \E t \in Instants : toISOString(t) = str
    THEN [nan |-> FALSE, ms |-> CHOOSE t \in Instants : toISOString(t) = str]
    ELSE [nan |-> TRUE, ms |-> 0]

\* new Date(str).toISOString() throws a RangeError on an invalid date.
DateToISOStringThrows(str) == DateGetTime(str).nan

isRecentCheckpointMutLe(checkpointTimestamp, thresholdMs, nowMs) ==
    LET checkpointTime == DateGetTime(checkpointTimestamp)
    IN  IF checkpointTime.nan THEN FALSE
        ELSE nowMs - checkpointTime.ms <= thresholdMs

\* utils.ts isRecentCheckpoint; Date.now() is the third argument.  Any
\* comparison with NaN is false.
isRecentCheckpoint(checkpointTimestamp, thresholdMs, nowMs) ==
    LET checkpointTime == DateGetTime(checkpointTimestamp)
    IN  IF checkpointTime.nan THEN FALSE
        ELSE nowMs - checkpointTime.ms < thresholdMs

-----------------------------------------------------------------------------
(* initMAMA *)

DEFAULT_DB_PATH == "~/.claude/mama-memory.db"

\* config?.dbPath of the plugin registration whose handler runs: absent, the
\* empty string, or a path.
Configs == {None, Some(""), Some("/a.db"), Some("/b.db")}

\* What loading mama-api.js and awaiting memoryStore.initDB() do.
InitOutcomes == {"ok", "requireThrows", "initDBThrows"}

\* The state the handlers share, as a record.
Cur ==
    [initialized |-> initialized, mama |-> mama,
     initialDbPath |-> initialDbPath, MAMA_DB_PATH |-> MAMA_DB_PATH,
     compactionOccurred |-> compactionOccurred,
     sessionStartedAt |-> sessionStartedAt,
     lastUserPrompt |-> lastUserPrompt,
     lastCompactionAt |-> lastCompactionAt,
     lastAutoCaptureCandidates |-> lastAutoCaptureCandidates,
     store |-> store]

\* config?.dbPath || process.env.MAMA_DB_PATH || default
ResolveDbPath(s, cfg) ==
    IF Truthy(cfg) THEN Val(cfg)
    ELSE IF Truthy(s.MAMA_DB_PATH) THEN Val(s.MAMA_DB_PATH)
    ELSE DEFAULT_DB_PATH

initMAMAMutReinit(s, cfg, initRes) ==
    LET dbPath == ResolveDbPath(s, cfg)
    IN  IF s.initialized /\ ~(Truthy(s.initialDbPath) /\ dbPath # Val(s.initialDbPath))
        THEN [s |-> s, called |-> TRUE, threw |-> FALSE, dbPath |-> dbPath, initDB |-> FALSE,
              logs |-> <<>>]
        ELSE LET s1 == [s EXCEPT !.MAMA_DB_PATH = Some(dbPath)]
             IN  IF initRes = "requireThrows"
                 THEN [s |-> s1, called |-> TRUE, threw |-> TRUE, dbPath |-> dbPath,
                       initDB |-> FALSE, logs |-> <<"error: Init failed">>]
                 ELSE IF initRes = "initDBThrows"
                 THEN [s |-> [s1 EXCEPT !.mama = Some("mama-api")],
                       called |-> TRUE, threw |-> TRUE, dbPath |-> dbPath, initDB |-> TRUE,
                       logs |-> <<"error: Init failed">>]
                 ELSE [s |-> [s1 EXCEPT !.mama = Some("mama-api"),
                                        !.initialized = TRUE,
                                        !.initialDbPath = Some(dbPath)],
                       called |-> TRUE, threw |-> FALSE, dbPath |-> dbPath, initDB |-> TRUE,
                       logs |-> <<"log: Initialized">>]

initMAMAMutLatchesFailure(s, cfg, initRes) ==
    LET dbPath == ResolveDbPath(s, cfg)
    IN  IF s.initialized
        THEN [s |-> s, called |-> TRUE, threw |-> FALSE, dbPath |-> dbPath, initDB |-> FALSE,
              logs |-> IF Truthy(s.initialDbPath) /\ dbPath # Val(s.initialDbPath)
                       THEN <<"warn: different dbPath">> ELSE <<>>]
        ELSE LET s1 == [s EXCEPT !.MAMA_DB_PATH = Some(dbPath)]
             IN  IF initRes = "requireThrows"
                 THEN [s |-> s1, called |-> TRUE, threw |-> TRUE, dbPath |-> dbPath,
                       initDB |-> FALSE, logs |-> <<"error: Init failed">>]
                 ELSE IF initRes = "initDBThrows"
                 THEN [s |-> [s1 EXCEPT !.mama = Some("mama-api"),
                                        !.initialized = TRUE],
                       called |-> TRUE, threw |-> TRUE, dbPath |-> dbPath, initDB |-> TRUE,
                       logs |-> <<"error: Init failed">>]
                 ELSE [s |-> [s1 EXCEPT !.mama = Some("mama-api"),
                                        !.initialized = TRUE,
                                        !.initialDbPath = Some(dbPath)],
                       called |-> TRUE, threw |-> FALSE, dbPath |-> dbPath, initDB |-> TRUE,
                       logs |-> <<"log: Initialized">>]

\* index.ts initMAMA.  The result holds the state it leaves, whether it
\* threw, the path it resolved, whether initDB was invoked, and its console
\* output.
initMAMA(s, cfg, initRes) ==
    LET dbPath == ResolveDbPath(s, cfg)
    IN  IF s.initialized
        THEN [s |-> s, called |-> TRUE, threw |-> FALSE, dbPath |-> dbPath, initDB |-> FALSE,
              logs |-> IF Truthy(s.initialDbPath) /\ dbPath # Val(s.initialDbPath)
                       THEN <<"warn: different dbPath">> ELSE <<>>]
        ELSE LET s1 == [s EXCEPT !.MAMA_DB_PATH = Some(dbPath)]
             IN  IF initRes = "requireThrows"
                 THEN [s |-> s1, called |-> TRUE, threw |-> TRUE, dbPath |-> dbPath,
                       initDB |-> FALSE, logs |-> <<"error: Init failed">>]
                 ELSE IF initRes = "initDBThrows"
                 THEN [s |-> [s1 EXCEPT !.mama = Some("mama-api")],
                       called |-> TRUE, threw |-> TRUE, dbPath |-> dbPath, initDB |-> TRUE,
                       logs |-> <<"error: Init failed">>]
                 ELSE [s |-> [s1 EXCEPT !.mama = Some("mama-api"),
                                        !.initialized = TRUE,
                                        !.initialDbPath = Some(dbPath)],
                       called |-> TRUE, threw |-> FALSE, dbPath |-> dbPath, initDB |-> TRUE,
                       logs |-> <<"log: Initialized">>]

-----------------------------------------------------------------------------
(* utils.ts: isRecord, getStringField, formatReasoning *)

\* A JavaScript value as far as the handlers look at it: its typeof and, for
\* a string, its text.
JsUndefined == [t |-> "undefined", v |-> ""]
JsNumber    == [t |-> "number", v |-> ""]
JsString(str) == [t |-> "string", v |-> str]

\* getStringField(obj, key), applied to the value of the field
getStringField(val) == IF val.t = "string" THEN Some(val.v) ELSE None

Lowers == "abcdefghijklmnopqrstuvwxyz"
Uppers == "ABCDEFGHIJKLMNOPQRSTUVWXYZ"
Digits == "0123456789"

CharAt(s, i) == SubSeq(s, i, i)
CharsOf(chars) == {CharAt(chars, k) : k \in 1..Len(chars)}
IdChars == CharsOf(Lowers) \cup CharsOf(Uppers) \cup CharsOf(Digits) \cup {"_", "-"}
ToLowerCase == [c \in CharsOf(Uppers) |->
                  CharAt(Lowers, CHOOSE k \in 1..26 : CharAt(Uppers, k) = c)]

\* \w, together with the `_` and `-` of the class [\w_-]
IsIdChar(c) == c \in IdChars
\* \s
IsSpace(c) == c \in {" ", "\t", "\n", "\r", "\f"}

LowerChar(c) == IF c \in DOMAIN ToLowerCase THEN ToLowerCase[c] ELSE c

\* the text as a case-insensitive pattern sees it, a half at a time
RECURSIVE Lower(_)
Lower(s) ==
    IF Len(s) = 0 THEN ""
    ELSE IF Len(s) = 1 THEN LowerChar(s)
    ELSE Lower(SubSeq(s, 1, Len(s) \div 2))
         \o Lower(SubSeq(s, Len(s) \div 2 + 1, Len(s)))

\* the lower-cased text low has word at position i
At(low, i, word) ==
    /\ i + Len(word) - 1 <= Len(low)
    /\ SubSeq(low, i, i + Len(word) - 1) = word

\* first position >= i whose character does not satisfy the class (Len+1 if none)
RECURSIVE SkipSpaces(_, _)
SkipSpaces(s, i) ==
    IF i <= Len(s) /\ IsSpace(CharAt(s, i)) THEN SkipSpaces(s, i + 1) ELSE i
RECURSIVE SkipIdChars(_, _)
SkipIdChars(s, i) ==
    IF i <= Len(s) /\ IsIdChar(CharAt(s, i)) THEN SkipIdChars(s, i + 1) ELSE i
RECURSIVE SkipNotBracket(_, _)
SkipNotBracket(s, i) ==
    IF i <= Len(s) /\ CharAt(s, i) # "]" THEN SkipNotBracket(s, i + 1) ELSE i

\* End (exclusive) of a match of
\*   (builds_on|debates):\s*[\w_-]+ | synthesizes:\s*\[[^\]]+\]   (flag i)
\* starting at position i of the lower-cased text, or 0 when the pattern
\* does not match there.  Lower-casing moves no character.
LinkMatchEnd(low, i) ==
    LET single(word) ==
            IF At(low, i, word)
            THEN LET a == SkipSpaces(low, i + Len(word))
                     b == SkipIdChars(low, a)
                 IN  IF b > a THEN b ELSE 0
            ELSE 0
        multi ==
            IF At(low, i, "synthesizes:")
            THEN LET a == SkipSpaces(low, i + 12)
                 IN  IF a <= Len(low) /\ CharAt(low, a) = "["
                     THEN LET b == SkipNotBracket(low, a + 1)
                          IN  IF b > a + 1 /\ b <= Len(low) THEN b + 1 ELSE 0
                     ELSE 0
            ELSE 0
    IN  IF CharAt(low, i) = "b" THEN single("builds_on:")
        ELSE IF CharAt(low, i) = "d" THEN single("debates:")
        ELSE IF CharAt(low, i) = "s" THEN multi
        ELSE 0

\* reasoning.match(...): the leftmost match, as string | null
LinkMatch(s) ==
    LET low == Lower(s)
        starts == {i \in 1..Len(s) : LinkMatchEnd(low, i) # 0}
    IN  IF starts = {} THEN None
        ELSE LET i == CHOOSE i \in starts : \A j \in starts : i <= j
             IN  Some(SubSeq(s, i, LinkMatchEnd(low, i) - 1))

LINK_GLYPH == "\n  (link) "

formatReasoningMutAlwaysAppends(reasoning, maxLen) ==
    IF reasoning = "" THEN ""
    ELSE LET linkMatch == LinkMatch(reasoning)
             truncated == IF Len(reasoning) > maxLen
                          THEN SubSeq(reasoning, 1, maxLen) \o "..."
                          ELSE reasoning
         IN  IF IsSome(linkMatch)
             THEN truncated \o LINK_GLYPH \o Val(linkMatch)
             ELSE truncated

\* utils.ts formatReasoning
formatReasoning(reasoning, maxLen) ==
    IF reasoning = "" THEN ""
    ELSE LET linkMatch == LinkMatch(reasoning)
             truncated == IF Len(reasoning) > maxLen
                          THEN SubSeq(reasoning, 1, maxLen) \o "..."
                          ELSE reasoning
         IN  IF IsSome(linkMatch) /\ ~Includes(truncated, Val(linkMatch))
             THEN truncated \o LINK_GLYPH \o Val(linkMatch)
             ELSE truncated

-----------------------------------------------------------------------------
(* The memory backend (MAMAApi), seen from the plugin *)

\* MAMADecision.  similarity is in thousandths (0..1000), -1 when absent.
D1 == [id |-> "decision_1", topic |-> "auth_strategy",
       decision |-> "Use JWT with refresh tokens",
       reasoning |-> "Stateless sessions scale. builds_on: decision_0",
       outcome |-> Some("success"), similarity |-> 845]

\* the decisions the backend returns
Decisions == {D1}

\* formatReasoning(r.reasoning, 100) of index.ts:266, computed once for each
\* decision
FormattedReasoning == [r \in Decisions |-> formatReasoning(r.reasoning, 100)]

\* A backend call either throws or returns a value.
Throws == [threw |-> TRUE, val |-> <<>>]
Returns(v) == [threw |-> FALSE, val |-> v]

\* suggest(): null, or {query, results}
SuggestResults ==
    {Throws, Returns(None), Returns(Some(<<>>)), Returns(Some(<<D1>>))}

\* list()
ListResults == {Throws, Returns(<<>>), Returns(<<D1>>)}

\* MAMACheckpoint
Checkpoint(id, summary, nextSteps, timestamp) ==
    [id |-> id, summary |-> summary, next_steps |-> nextSteps,
     timestamp |-> timestamp]

\* Checkpoints written to the database by something other than this process.
ExternalCheckpoints ==
    {Checkpoint(1, "done", "", toISOString(EXTERNAL_INSTANT)),
     Checkpoint(2, "imported", "continue", "not-a-date")}

\* loadCheckpoint(): throws, null, the checkpoint this process saved last, or
\* one that something else wrote.
LoadResults(s) ==
    {Throws, Returns(None)}
    \cup (IF IsSome(s.store) THEN {Returns(s.store)} ELSE {})
    \cup {Returns(Some(c)) : c \in ExternalCheckpoints}

\* a backend that is up: no call throws
Up(results) == {r \in results : ~r.threw}

\* saveCheckpoint(): throws, or returns the new row id
CHECKPOINT_ID == 3
SaveResults == {Throws, Returns(CHECKPOINT_ID)}

\* the text up to its first line break
FirstLine(text) ==
    IF \E k \in 1..Len(text) : CharAt(text, k) = "\n"
    THEN SubSeq(text, 1, (CHOOSE k \in 1..Len(text) :
                            /\ CharAt(text, k) = "\n"
                            /\ \A j \in 1..(k - 1) : CharAt(text, j) # "\n") - 1)
    ELSE text

\* The backend after saveCheckpoint(summary, [], nextSteps) succeeded at time
\* t.  The plugin never looks into the texts of a checkpoint it loads, and
\* the row keeps the first line of each.
Saved(s, id, summary, nextSteps, t) ==
    [s EXCEPT !.store = Some(Checkpoint(id, FirstLine(summary),
                                        FirstLine(nextSteps), toISOString(t)))]

-----------------------------------------------------------------------------
(* What a handler run is recorded as *)

HandlerPromiseMutRethrow(threw) == IF threw THEN "rejected" ELSE "resolved"

\* Every handler body is `try { ... } catch (err) { console.error(...) }`:
\* the promise the host awaits resolves whether or not the body threw.
HandlerPromise(threw) == "resolved"

\* handler    the event handled
\* at         Date.now() when it ran
\* promise    how the handler's promise settled
\* threwAt    the step of the body that threw into the handler's catch ("" if none)
\* result     its return value: <<>> (undefined) or <<prependContext>>
\* calls      the backend operations it invoked, in order
\* saved      the arguments of its saveCheckpoint call, if it made one
\* loaded     what its loadCheckpoint call returned, if it returned
\* semantic, recent   the lengths of semanticResults and recentDecisions of
\*            before_agent_start, once it has them
\* flagRead   the value of compactionOccurred read at index.ts:249, if reached
\* due        noteDue when the event arrived
\* event      the payload of agent_end, if that is the event handled
\* initCalled, initThrew, initDB, dbPath, logs   as returned by initMAMA, logs
\*            extended by the handler's own console output
Run(name, t, i) ==
    [handler |-> name, at |-> t, promise |-> HandlerPromise(FALSE), threwAt |-> "",
     result |-> None, calls |-> <<>>, saved |-> None, loaded |-> None,
     semantic |-> None, recent |-> None, flagRead |-> None, due |-> "no",
     event |-> None, listed |-> None,
     initCalled |-> i.called, initThrew |-> i.threw, initDB |-> i.initDB,
     dbPath |-> i.dbPath, logs |-> i.logs, s |-> i.s]

CaughtMutRetry(r, where, tag) ==
    [r EXCEPT !.promise = HandlerPromise(TRUE), !.threwAt = where,
              !.logs = @ \o <<tag>>,
              !.calls = IF where \in {"loadCheckpoint", "saveCheckpoint"}
                        THEN @ \o <<where>> ELSE @]

\* the run whose body threw at step `where` and was caught
Caught(r, where, tag) ==
    [r EXCEPT !.promise = HandlerPromise(TRUE), !.threwAt = where,
              !.logs = @ \o <<tag>>]

HasLog(r, tag) == \E k \in 1..Len(r.logs) : r.logs[k] = tag

-----------------------------------------------------------------------------
(* session_start (index.ts:185-210) *)

FreshSessionMutKeepFlag(s, t) ==
    [s EXCEPT !.sessionStartedAt = Some(toISOString(t)),
              !.lastUserPrompt = None,
              !.lastCompactionAt = None,
              !.lastAutoCaptureCandidates = <<>>]

\* index.ts:188-192
FreshSession(s, t) ==
    [s EXCEPT !.sessionStartedAt = Some(toISOString(t)),
              !.lastUserPrompt = None,
              !.lastCompactionAt = None,
              !.lastAutoCaptureCandidates = <<>>,
              !.compactionOccurred = FALSE]

session_startMutResetsFirst(s, t, cfg, initRes, loadRes, listRes) ==
    LET i  == initMAMA(FreshSession(s, t), cfg, initRes)
        r0 == Run("session_start", t, i)
        tag == "error: Session start error"
    IN  IF i.threw THEN Caught(r0, "initMAMA", tag)
        ELSE
        LET r1 == [r0 EXCEPT !.calls = <<"loadCheckpoint">>]
        IN  IF loadRes.threw THEN Caught(r1, "loadCheckpoint", tag)
            ELSE
            LET r2 == [r1 EXCEPT !.loaded = Some(loadRes.val),
                                 !.calls = @ \o <<"list(5)">>]
            IN  IF listRes.threw THEN Caught(r2, "list", tag)
                ELSE [r2 EXCEPT !.logs = @
                        \o (IF IsSome(loadRes.val)
                            THEN <<"log: Session start: Loaded checkpoint">> ELSE <<>>)
                        \o (IF Len(listRes.val) > 0
                            THEN <<"log: Session start: recent decisions available">>
                            ELSE <<>>)]

session_start(s, t, cfg, initRes, loadRes, listRes) ==
    LET i  == initMAMA(s, cfg, initRes)
        r0 == Run("session_start", t, i)
        tag == "error: Session start error"
    IN  IF i.threw THEN Caught(r0, "initMAMA", tag)
        ELSE
        LET s1 == FreshSession(i.s, t)
            r1 == [r0 EXCEPT !.s = s1, !.calls = <<"loadCheckpoint">>]
        IN  IF loadRes.threw THEN Caught(r1, "loadCheckpoint", tag)
            ELSE
            LET r2 == [r1 EXCEPT !.loaded = Some(loadRes.val),
                                 !.calls = @ \o <<"list(5)">>]
            IN  IF listRes.threw THEN Caught(r2, "list", tag)
                ELSE [r2 EXCEPT !.logs = @
                        \o (IF IsSome(loadRes.val)
                            THEN <<"log: Session start: Loaded checkpoint">> ELSE <<>>)
                        \o (IF Len(listRes.val) > 0
                            THEN <<"log: Session start: recent decisions available">>
                            ELSE <<>>)]

-----------------------------------------------------------------------------
(* before_agent_start (index.ts:215-308) *)

\* The event payloads: not a record, or a record whose `prompt` is missing,
\* not a string, or a string.
Prompts == {"", "abcd", "abcde"}
PromptEvents ==
    {[isRecord |-> FALSE, prompt |-> JsUndefined],
     [isRecord |-> TRUE, prompt |-> JsNumber]}
    \cup {[isRecord |-> TRUE, prompt |-> JsString(p)] : p \in Prompts}

COMPACTION_NOTE ==
    "\n**Note:** Context was recently compressed. Above memories help restore state.\n"
OPEN_TAG == "<relevant-memories>\n"
CLOSE_TAG == "</relevant-memories>"
HEADER == "# MAMA Memory Context\n\n"
RELEVANT_HEADING == "## Relevant Decisions (semantic match)\n\n"
CHECKPOINT_HEADING == "## Last Checkpoint ("
RECENT_HEADING == "## Recent Decisions\n\n"

\* Math.round((r.similarity || 0) * 100), similarity in thousandths
Pct(r) == IF r.similarity <= 0 THEN 0 ELSE (r.similarity + 5) \div 10

\* index.ts:264-267, one semantic match (the backquotes around the id are
\* written as apostrophes)
SemanticLine(r) ==
    "- **" \o r.topic \o "** [" \o ToString(Pct(r)) \o "%]: " \o r.decision
    \o (IF Truthy(r.outcome) THEN " (" \o Val(r.outcome) \o ")" ELSE "")
    \o "\n  _" \o FormattedReasoning[r] \o "_\n"
    \o "  ID: '" \o r.id \o "'\n"

\* index.ts:283-285, one recent decision
RecentLine(d) ==
    "- **" \o d.topic \o "**: " \o d.decision
    \o (IF Truthy(d.outcome) THEN " (" \o Val(d.outcome) \o ")" ELSE "")
    \o "\n"

RECURSIVE SemanticLines(_, _)
\* index.ts:262-268
SemanticLines(results, k) ==
    IF k > Len(results) THEN ""
    ELSE SemanticLine(results[k]) \o SemanticLines(results, k + 1)

RECURSIVE RecentLines(_, _)
\* index.ts:282-286
RecentLines(decisions, k) ==
    IF k > Len(decisions) THEN ""
    ELSE RecentLine(decisions[k]) \o RecentLines(decisions, k + 1)

ShouldInjectMutAlways(checkpoint, semanticResults, recentDecisions) == TRUE

\* index.ts:256
ShouldInject(checkpoint, semanticResults, recentDecisions) ==
    IsSome(checkpoint) \/ Len(semanticResults) > 0 \/ Len(recentDecisions) > 0

\* index.ts:272: rendering throws when the checkpoint's timestamp is not a date
RenderThrows(checkpoint) ==
    IsSome(checkpoint) /\ DateToISOStringThrows(Val(checkpoint).timestamp)

RenderContextMutRecentFirst(checkpoint, semanticResults, recentDecisions, compactionNote) ==
    OPEN_TAG \o HEADER
    \o (IF Len(semanticResults) > 0
        THEN RELEVANT_HEADING \o SemanticLines(semanticResults, 1) \o "\n"
        ELSE "")
    \o (IF Len(recentDecisions) > 0
        THEN RECENT_HEADING \o RecentLines(recentDecisions, 1) \o "\n"
        ELSE "")
    \o (IF IsSome(checkpoint)
        THEN CHECKPOINT_HEADING
             \o toISOString(DateGetTime(Val(checkpoint).timestamp).ms) \o ")\n\n"
             \o "**Summary:** " \o Val(checkpoint).summary \o "\n\n"
             \o (IF Val(checkpoint).next_steps # ""
                 THEN "**Next Steps:** " \o Val(checkpoint).next_steps \o "\n\n"
                 ELSE "")
        ELSE "")
    \o compactionNote
    \o CLOSE_TAG

\* index.ts:257-295, the text of prependContext
RenderContext(checkpoint, semanticResults, recentDecisions, compactionNote) ==
    OPEN_TAG \o HEADER
    \o (IF Len(semanticResults) > 0
        THEN RELEVANT_HEADING \o SemanticLines(semanticResults, 1) \o "\n"
        ELSE "")
    \o (IF IsSome(checkpoint)
        THEN CHECKPOINT_HEADING
             \o toISOString(DateGetTime(Val(checkpoint).timestamp).ms) \o ")\n\n"
             \o "**Summary:** " \o Val(checkpoint).summary \o "\n\n"
             \o (IF Val(checkpoint).next_steps # ""
                 THEN "**Next Steps:** " \o Val(checkpoint).next_steps \o "\n\n"
                 ELSE "")
        ELSE "")
    \o (IF Len(recentDecisions) > 0
        THEN RECENT_HEADING \o RecentLines(recentDecisions, 1) \o "\n"
        ELSE "")
    \o compactionNote
    \o CLOSE_TAG

ConsumeCompactionFlagMutKeep(s) ==
    IF s.compactionOccurred
    THEN [note |-> COMPACTION_NOTE, s |-> s]
    ELSE [note |-> "", s |-> s]

\* index.ts:248-253: the note, and the state with the flag cleared
ConsumeCompactionFlag(s) ==
    IF s.compactionOccurred
    THEN [note |-> COMPACTION_NOTE, s |-> [s EXCEPT !.compactionOccurred = FALSE]]
    ELSE [note |-> "", s |-> s]

\* index.ts:219-222
PromptOf(event) ==
    LET promptField == IF event.isRecord THEN getStringField(event.prompt) ELSE None
    IN  IF IsSome(promptField) THEN Val(promptField) ELSE ""

\* index.ts:229
Searches(userPrompt) == userPrompt # "" /\ Len(userPrompt) >= 5

\* index.ts:228-236: a search that throws or returns null leaves no results
SemanticResults(searched, suggestRes) ==
    IF searched /\ ~suggestRes.threw /\ IsSome(suggestRes.val)
    THEN Val(suggestRes.val) ELSE <<>>

before_agent_start(s, t, cfg, initRes, event, suggestRes, loadRes, listRes) ==
    LET i  == initMAMA(s, cfg, initRes)
        r0 == Run("before_agent_start", t, i)
        tag == "error: Auto-recall error"
    IN  IF i.threw THEN Caught(r0, "initMAMA", tag)
        ELSE
        LET userPrompt == PromptOf(event)
            s1 == [i.s EXCEPT !.lastUserPrompt =
                      IF userPrompt # "" THEN Some(truncateText(userPrompt, 200))
                      ELSE None]
            r1 == [r0 EXCEPT !.s = s1]
        IN  IF ~IsSome(s1.mama) THEN Caught(r1, "getMAMA", tag)
            ELSE
            LET searched == Searches(userPrompt)
                semanticResults == SemanticResults(searched, suggestRes)
                r2 == [r1 EXCEPT
                         !.semantic = Some(Len(semanticResults)),
                         !.calls = (IF searched THEN <<"suggest(3,0.5)">> ELSE <<>>)
                                   \o <<"loadCheckpoint">>,
                         !.logs = @ \o (IF searched /\ suggestRes.threw
                                        THEN <<"error: Semantic search error">>
                                        ELSE <<>>)]
            IN  IF loadRes.threw THEN Caught(r2, "loadCheckpoint", tag)
                ELSE
                LET checkpoint == loadRes.val
                    listed == Len(semanticResults) = 0
                    r3 == [r2 EXCEPT !.loaded = Some(checkpoint),
                                     !.calls = @ \o (IF listed THEN <<"list(3)">>
                                                     ELSE <<>>)]
                IN  IF listed /\ listRes.threw THEN Caught(r3, "list", tag)
                    ELSE
                    LET recentDecisions == IF listed THEN listRes.val ELSE <<>>
                        c  == ConsumeCompactionFlag(s1)
                        r4 == [r3 EXCEPT !.s = c.s,
                                         !.recent = Some(Len(recentDecisions)),
                                         !.flagRead = Some(s1.compactionOccurred)]
                    IN  IF ~ShouldInject(checkpoint, semanticResults, recentDecisions)
                        THEN r4
                        ELSE IF RenderThrows(checkpoint) THEN Caught(r4, "render", tag)
                        ELSE [r4 EXCEPT
                                !.result = Some(RenderContext(checkpoint,
                                    semanticResults, recentDecisions, c.note)),
                                !.logs = @ \o <<"log: Auto-recall">>]

-----------------------------------------------------------------------------
(* agent_end (index.ts:313-377) *)

\* message.content: a string, an array of blocks, or anything else
ContentString(text) == [kind |-> "string", text |-> text, blocks |-> <<>>]
ContentBlocks(blocks) == [kind |-> "array", text |-> "", blocks |-> blocks]
ContentOther == [kind |-> "other", text |-> "", blocks |-> <<>>]

Block(type, text) == [isRecord |-> TRUE, type |-> type, text |-> text]
NonRecordBlock == [isRecord |-> FALSE, type |-> "", text |-> JsUndefined]

Message(role, content) == [isRecord |-> TRUE, role |-> role, content |-> content]
NonRecordMessage == [isRecord |-> FALSE, role |-> "", content |-> ContentOther]

\* event.success is `true`, or something else; event.messages is an array
\* (<<array>>) or something else (<<>>)
AgentEvent(success, messages) ==
    [isRecord |-> TRUE, success |-> success, messages |-> messages]
NonRecordAgentEvent == [isRecord |-> FALSE, success |-> FALSE, messages |-> None]

TEXT_DECIDED  == "We decided to use sqlite."
TEXT_STRATEGY == "Our caching strategy is LRU."
TEXT_SHORT    == "decided: yes"
TEXT_PLAIN    == "The weather is nice today."
TEXT_INJECTED == OPEN_TAG \o "we decided x" \o CLOSE_TAG
TEXT_MARKUP   == "<b>we decided to ship</b>"

AgentEvents ==
    {NonRecordAgentEvent,
     AgentEvent(TRUE, None),
     AgentEvent(TRUE, Some(<<>>)),
     AgentEvent(FALSE, Some(<<Message("user", ContentString(TEXT_DECIDED))>>)),
     AgentEvent(TRUE, Some(<<Message("system", ContentString(TEXT_STRATEGY)),
                             NonRecordMessage,
                             Message("user", ContentOther),
                             Message("user", ContentString(TEXT_SHORT)),
                             Message("user", ContentString(TEXT_PLAIN)),
                             Message("user", ContentString(TEXT_INJECTED)),
                             Message("assistant", ContentString(TEXT_MARKUP)),
                             Message("assistant",
                                ContentBlocks(<<Block("image", JsString(TEXT_STRATEGY)),
                                                Block("text", JsNumber),
                                                NonRecordBlock,
                                                Block("text", JsString(TEXT_DECIDED))>>))>>))}

\* index.ts:339-344
RECURSIVE BlockTexts(_, _)
BlockTexts(blocks, k) ==
    IF k > Len(blocks) THEN <<>>
    ELSE (IF blocks[k].isRecord /\ blocks[k].type = "text"
             /\ blocks[k].text.t = "string"
          THEN <<blocks[k].text.v>> ELSE <<>>)
         \o BlockTexts(blocks, k + 1)

\* index.ts:328-346
RECURSIVE ExtractTexts(_, _)
ExtractTexts(messages, k) ==
    IF k > Len(messages) THEN <<>>
    ELSE LET msg == messages[k]
         IN  (IF ~msg.isRecord THEN <<>>
              ELSE IF msg.role \notin {"user", "assistant"} THEN <<>>
              ELSE IF msg.content.kind = "string" THEN <<msg.content.text>>
              ELSE IF msg.content.kind = "array" THEN BlockTexts(msg.content.blocks, 1)
              ELSE <<>>)
             \o ExtractTexts(messages, k + 1)

\* /use.*instead/ : `.` matches no line terminator
UseInstead(low) ==
    \E a \in 1..Len(low), b \in 1..Len(low) :
        /\ a + 3 <= b
        /\ At(low, a, "use") /\ At(low, b, "instead")
        /\ \A k \in (a + 3)..(b - 1) : CharAt(low, k) \notin {"\n", "\r"}

\* index.ts:349-353.  The Korean alternatives of the three patterns are left
\* out: the texts of the model are ASCII and cannot match them.
MatchesDecisionPattern(text) ==
    LET low == Lower(text)
    IN  \/ \E w \in {"decided", "chose", "going with"} : Includes(low, w)
        \/ UseInstead(low)
        \/ \E w \in {"will use", "approach", "strategy"} : Includes(low, w)
        \/ \E w \in {"remember", "learned", "lesson"} : Includes(low, w)

IsCandidateMutExclusive(text) ==
    /\ ~(Len(text) <= 20 \/ Len(text) > 500)
    /\ ~Includes(text, "<relevant-memories>")
    /\ ~(StartsWith(text, "<") /\ Includes(text, "</"))
    /\ MatchesDecisionPattern(text)

IsCandidateMutNoMarker(text) ==
    /\ ~(Len(text) < 20 \/ Len(text) > 500)
    /\ ~(StartsWith(text, "<") /\ Includes(text, "</"))
    /\ MatchesDecisionPattern(text)

\* index.ts:357-363
IsCandidate(text) ==
    /\ ~(Len(text) < 20 \/ Len(text) > 500)
    /\ ~Includes(text, "<relevant-memories>")
    /\ ~(StartsWith(text, "<") /\ Includes(text, "</"))
    /\ MatchesDecisionPattern(text)

AddCandidateMutNoDedup(candidates, text) ==
    LET all == <<truncateText(text, 160)>> \o candidates
    IN  SubSeq(all, 1, IF Len(all) < 3 THEN Len(all) ELSE 3)

AddCandidateMutMoveToFront(candidates, text) ==
    LET candidate == truncateText(text, 160)
        all == <<candidate>> \o SelectSeq(candidates, LAMBDA c : c # candidate)
    IN  SubSeq(all, 1, IF Len(all) < 3 THEN Len(all) ELSE 3)

\* index.ts:366-369
AddCandidate(candidates, text) ==
    LET candidate == truncateText(text, 160)
    IN  IF \E k \in 1..Len(candidates) : candidates[k] = candidate
        THEN candidates
        ELSE LET all == <<candidate>> \o candidates
             IN  SubSeq(all, 1, IF Len(all) < 3 THEN Len(all) ELSE 3)

\* index.ts:355-373
RECURSIVE DetectAll(_, _, _)
DetectAll(candidates, texts, k) ==
    IF k > Len(texts) THEN candidates
    ELSE DetectAll(IF IsCandidate(texts[k]) THEN AddCandidate(candidates, texts[k])
                   ELSE candidates,
                   texts, k + 1)

\* index.ts:370
CANDIDATE_LOG == "log: Auto-capture candidate: "

RECURSIVE CandidateLogs(_, _)
CandidateLogs(texts, k) ==
    IF k > Len(texts) THEN <<>>
    ELSE (IF IsCandidate(texts[k])
          THEN <<CANDIDATE_LOG \o truncateText(texts[k], 160)>> ELSE <<>>)
         \o CandidateLogs(texts, k + 1)

\* A run that returned before calling initMAMA.
NoInit(s) ==
    [s |-> s, called |-> FALSE, threw |-> FALSE, dbPath |-> "", initDB |-> FALSE,
     logs |-> <<>>]

\* Array.isArray(event.messages) ? event.messages : []
MessagesOf(event) ==
    IF event.isRecord /\ IsSome(event.messages) THEN Val(event.messages) ELSE <<>>

ProceedsMutIgnoreSuccess(event) == event.isRecord /\ Len(MessagesOf(event)) # 0

\* index.ts:314-322: the handler goes on past its early returns
Proceeds(event) ==
    /\ event.isRecord
    /\ event.success = TRUE
    /\ Len(MessagesOf(event)) # 0

CaptureMutSaves(r, texts) ==
    [r EXCEPT
       !.s = [r.s EXCEPT !.lastAutoCaptureCandidates =
                 DetectAll(r.s.lastAutoCaptureCandidates, texts, 1)],
       !.calls = @ \o (IF \E k \in 1..Len(texts) : IsCandidate(texts[k])
                       THEN <<"save">> ELSE <<>>),
       !.logs = @ \o CandidateLogs(texts, 1)]

\* index.ts:355-373: the detection loop over the extracted texts
Capture(r, texts) ==
    [r EXCEPT
       !.s = [r.s EXCEPT !.lastAutoCaptureCandidates =
                 DetectAll(r.s.lastAutoCaptureCandidates, texts, 1)],
       !.logs = @ \o CandidateLogs(texts, 1)]

agent_end(s, t, cfg, initRes, event) ==
    IF ~Proceeds(event)
    THEN [Run("agent_end", t, NoInit(s)) EXCEPT !.event = Some(event)]
    ELSE
    LET i  == initMAMA(s, cfg, initRes)
        r0 == [Run("agent_end", t, i) EXCEPT !.event = Some(event)]
    IN  IF i.threw THEN Caught(r0, "initMAMA", "error: Auto-capture error")
        ELSE Capture(r0, ExtractTexts(MessagesOf(event), 1))

-----------------------------------------------------------------------------
(* session_end (index.ts:382-452) *)

\* Array.prototype.join
RECURSIVE JoinFrom(_, _, _)
JoinFrom(parts, sep, k) ==
    IF k > Len(parts) THEN ""
    ELSE IF k = Len(parts) THEN parts[k]
    ELSE parts[k] \o sep \o JoinFrom(parts, sep, k + 1)
Join(parts, sep) == JoinFrom(parts, sep, 1)

\* t.trim().length > 0
NonBlank(str) == \E k \in 1..Len(str) : ~IsSpace(CharAt(str, k))

\* index.ts:398-401
RECURSIVE NonBlankTopics(_, _)
NonBlankTopics(decisions, k) ==
    IF k > Len(decisions) THEN <<>>
    ELSE (IF NonBlank(decisions[k].topic) THEN <<decisions[k].topic>> ELSE <<>>)
         \o NonBlankTopics(decisions, k + 1)
RecentTopics(decisions) ==
    LET topics == NonBlankTopics(decisions, 1)
    IN  SubSeq(topics, 1, IF Len(topics) < 5 THEN Len(topics) ELSE 5)

SessionSummaryMutTopicsOfAny(s, endedAt, recentDecisions) ==
    Join(<<"Session ended: " \o endedAt>>
         \o (IF Truthy(s.sessionStartedAt)
             THEN <<"Session started: " \o Val(s.sessionStartedAt)>> ELSE <<>>)
         \o (IF Truthy(s.lastUserPrompt)
             THEN <<"Last user prompt: " \o Val(s.lastUserPrompt)>> ELSE <<>>)
         \o (IF Truthy(s.lastCompactionAt)
             THEN <<"Last compaction: " \o Val(s.lastCompactionAt)>> ELSE <<>>)
         \o <<"Decisions recorded (recent): " \o ToString(Len(recentDecisions))>>
         \o (IF Len(recentDecisions) > 0
             THEN <<"Recent topics: " \o Join(RecentTopics(recentDecisions), ", ")>>
             ELSE <<>>),
         "\n")

\* index.ts:403-416, 437
SessionSummary(s, endedAt, recentDecisions) ==
    Join(<<"Session ended: " \o endedAt>>
         \o (IF Truthy(s.sessionStartedAt)
             THEN <<"Session started: " \o Val(s.sessionStartedAt)>> ELSE <<>>)
         \o (IF Truthy(s.lastUserPrompt)
             THEN <<"Last user prompt: " \o Val(s.lastUserPrompt)>> ELSE <<>>)
         \o (IF Truthy(s.lastCompactionAt)
             THEN <<"Last compaction: " \o Val(s.lastCompactionAt)>> ELSE <<>>)
         \o <<"Decisions recorded (recent): " \o ToString(Len(recentDecisions))>>
         \o (IF Len(RecentTopics(recentDecisions)) > 0
             THEN <<"Recent topics: " \o Join(RecentTopics(recentDecisions), ", ")>>
             ELSE <<>>),
         "\n")

\* index.ts:418-435, 438
SessionNextSteps(s, recentDecisions) ==
    Join((IF Len(s.lastAutoCaptureCandidates) > 0
          THEN <<"Review auto-capture candidates:\n- "
                 \o Join(s.lastAutoCaptureCandidates, "\n- ")>>
          ELSE <<>>)
         \o (IF Len(recentDecisions) > 0
             THEN <<"Review recent decisions (count: "
                    \o ToString(Len(recentDecisions)) \o "). Last topic: "
                    \o (IF recentDecisions[1].topic # ""
                        THEN recentDecisions[1].topic ELSE "unknown")>>
             ELSE <<"No new decisions recorded in this session.">>)
         \o <<"On next session start: load checkpoint and continue from the last prompt.">>,
         "\n\n")

ShouldSkipMutInverted(existingCheckpoint, t) ==
    /\ IsSome(existingCheckpoint)
    /\ ~isRecentCheckpoint(Val(existingCheckpoint).timestamp, DEFAULT_THRESHOLD_MS, t)

\* index.ts:389
ShouldSkip(existingCheckpoint, t) ==
    /\ IsSome(existingCheckpoint)
    /\ isRecentCheckpoint(Val(existingCheckpoint).timestamp, DEFAULT_THRESHOLD_MS, t)

SaveArgs(summary, nextSteps) ==
    [summary |-> summary, files |-> <<>>, nextSteps |-> nextSteps]

session_end(s, t, cfg, initRes, loadRes, listRes, saveRes) ==
    LET i  == initMAMA(s, cfg, initRes)
        r0 == Run("session_end", t, i)
        tag == "error: Session end error"
    IN  IF i.threw THEN Caught(r0, "initMAMA", tag)
        ELSE
        LET r1 == [r0 EXCEPT !.calls = <<"loadCheckpoint">>]
        IN  IF loadRes.threw THEN Caught(r1, "loadCheckpoint", tag)
            ELSE
            LET existingCheckpoint == loadRes.val
                r2 == [r1 EXCEPT !.loaded = Some(existingCheckpoint)]
            IN  IF ShouldSkip(existingCheckpoint, t)
                THEN [r2 EXCEPT !.logs = @ \o <<"log: Session end: Skipping auto-save">>]
                ELSE
                LET r3 == [r2 EXCEPT !.calls = @ \o <<"list(10)">>]
                IN  IF listRes.threw THEN Caught(r3, "list", tag)
                    ELSE
                    LET recentDecisions == listRes.val
                        summary == SessionSummary(i.s, toISOString(t), recentDecisions)
                        nextSteps == SessionNextSteps(i.s, recentDecisions)
                        r4 == [r3 EXCEPT !.calls = @ \o <<"saveCheckpoint">>,
                                         !.listed = Some(recentDecisions),
                                         !.saved = Some(SaveArgs(summary, nextSteps))]
                    IN  IF saveRes.threw THEN Caught(r4, "saveCheckpoint", tag)
                        ELSE [r4 EXCEPT
                                !.s = Saved(i.s, saveRes.val, summary, nextSteps, t),
                                !.logs = @ \o <<"log: Session end: Auto-saved checkpoint">>]

-----------------------------------------------------------------------------
(* before_compaction (index.ts:457-478) *)

PRE_COMPACTION_PREFIX == "Pre-compaction checkpoint: "
PRE_COMPACTION_NEXT == "Resume after compaction - check previous context"

\* index.ts:472
MarkCompaction(s) == [s EXCEPT !.compactionOccurred = TRUE]

before_compactionMutStaleness(s, t, cfg, initRes, saveRes) ==
    LET i  == initMAMA(s, cfg, initRes)
        r0 == Run("before_compaction", t, i)
        tag == "error: Before compaction error"
    IN  IF i.threw THEN Caught(r0, "initMAMA", tag)
        ELSE
        LET nowIso == toISOString(t)
            s1 == [i.s EXCEPT !.lastCompactionAt = Some(nowIso)]
            summary == PRE_COMPACTION_PREFIX \o nowIso
                       \o ". Context will be compressed."
            r1 == [r0 EXCEPT !.s = s1, !.calls = <<"saveCheckpoint">>,
                             !.saved = Some(SaveArgs(summary, PRE_COMPACTION_NEXT))]
        IN  IF ShouldSkip(s1.store, t)
            THEN [r0 EXCEPT !.s = s1, !.calls = <<"loadCheckpoint">>,
                            !.loaded = Some(s1.store)]
            ELSE IF saveRes.threw THEN Caught(r1, "saveCheckpoint", tag)
            ELSE [r1 EXCEPT
                    !.s = MarkCompaction(Saved(s1, saveRes.val, summary,
                                               PRE_COMPACTION_NEXT, t)),
                    !.logs = @ \o <<"log: Before compaction: Saved checkpoint">>]

before_compaction(s, t, cfg, initRes, saveRes) ==
    LET i  == initMAMA(s, cfg, initRes)
        r0 == Run("before_compaction", t, i)
        tag == "error: Before compaction error"
    IN  IF i.threw THEN Caught(r0, "initMAMA", tag)
        ELSE
        LET nowIso == toISOString(t)
            s1 == [i.s EXCEPT !.lastCompactionAt = Some(nowIso)]
            summary == PRE_COMPACTION_PREFIX \o nowIso
                       \o ". Context will be compressed."
            r1 == [r0 EXCEPT !.s = s1, !.calls = <<"saveCheckpoint">>,
                             !.saved = Some(SaveArgs(summary, PRE_COMPACTION_NEXT))]
        IN  IF saveRes.threw THEN Caught(r1, "saveCheckpoint", tag)
            ELSE [r1 EXCEPT
                    !.s = MarkCompaction(Saved(s1, saveRes.val, summary,
                                               PRE_COMPACTION_NEXT, t)),
                    !.logs = @ \o <<"log: Before compaction: Saved checkpoint">>]

-----------------------------------------------------------------------------
(* after_compaction (index.ts:483-507) *)

after_compactionMutStampsCompaction(s, t, cfg, initRes, loadRes, listRes) ==
    LET i  == initMAMA(s, cfg, initRes)
        r0 == Run("after_compaction", t, i)
        tag == "error: After compaction error"
    IN  IF i.threw THEN Caught(r0, "initMAMA", tag)
        ELSE
        LET r1 == [r0 EXCEPT !.calls = <<"loadCheckpoint">>,
                             !.s = [i.s EXCEPT !.lastCompactionAt = Some(toISOString(t))]]
        IN  IF loadRes.threw THEN Caught(r1, "loadCheckpoint", tag)
            ELSE
            LET r2 == [r1 EXCEPT !.loaded = Some(loadRes.val),
                                 !.calls = @ \o <<"list(5)">>]
            IN  IF listRes.threw THEN Caught(r2, "list", tag)
                ELSE [r2 EXCEPT !.logs = @
                        \o <<"log: After compaction: Context compressed">>]

after_compaction(s, t, cfg, initRes, loadRes, listRes) ==
    LET i  == initMAMA(s, cfg, initRes)
        r0 == Run("after_compaction", t, i)
        tag == "error: After compaction error"
    IN  IF i.threw THEN Caught(r0, "initMAMA", tag)
        ELSE
        LET r1 == [r0 EXCEPT !.calls = <<"loadCheckpoint">>]
        IN  IF loadRes.threw THEN Caught(r1, "loadCheckpoint", tag)
            ELSE
            LET r2 == [r1 EXCEPT !.loaded = Some(loadRes.val),
                                 !.calls = @ \o <<"list(5)">>]
            IN  IF listRes.threw THEN Caught(r2, "list", tag)
                ELSE [r2 EXCEPT !.logs = @
                        \o <<"log: After compaction: Context compressed">>
                        \o (IF IsSome(loadRes.val)
                            THEN <<"log: Checkpoint available">> ELSE <<>>)
                        \o (IF Len(listRes.val) > 0
                            THEN <<"log: recent decisions ready for re-injection">>
                            ELSE <<>>)]

-----------------------------------------------------------------------------
(* The tools (index.ts:512-824) *)

\* What a throw or a rejected promise carries: an Error, a string, undefined,
\* null, or some other value (v is then its JSON text).
Thrown ==
    {[t |-> "Error", v |-> "SQLITE_BUSY: database is locked"],
     [t |-> "string", v |-> "backend down"],
     JsUndefined,
     [t |-> "null", v |-> ""],
     [t |-> "object", v |-> "[5]"]}

\* utils.ts:35-54
getErrorMessage(err) ==
    IF err.t = "Error" THEN err.v
    ELSE IF err.t = "string" THEN err.v
    ELSE IF err.t = "undefined" THEN "undefined"
    ELSE IF err.t = "null" THEN "null"
    ELSE err.v

\* index.ts:157: what initMAMA throws on
Rethrown(err) ==
    IF err.t = "Error" THEN err ELSE [t |-> "Error", v |-> getErrorMessage(err)]

\* String(params.x || '') of a parameter that is a string or missing
Str(o) == IF Truthy(o) THEN Val(o) ELSE ""

TrimMutIdentity(str) == str

\* String.prototype.trim
RECURSIVE Trim(_)
Trim(str) ==
    IF str = "" THEN ""
    ELSE IF IsSpace(CharAt(str, 1)) THEN Trim(SubSeq(str, 2, Len(str)))
    ELSE IF IsSpace(CharAt(str, Len(str))) THEN Trim(SubSeq(str, 1, Len(str) - 1))
    ELSE str

ToUpperCaseMutIdentity(str) == str

\* String.prototype.toUpperCase
RECURSIVE ToUpperCase(_)
ToUpperCase(str) ==
    IF str = "" THEN ""
    ELSE LET c == CharAt(str, 1)
         IN  (IF c \in CharsOf(Lowers)
              THEN CharAt(Uppers, CHOOSE k \in 1..26 : CharAt(Lowers, k) = c)
              ELSE c)
             \o ToUpperCase(SubSeq(str, 2, Len(str)))

ToolFailureMutNoPrefix(r, where, err) ==
    [r EXCEPT !.promise = HandlerPromise(TRUE), !.threwAt = where,
              !.result = Some(getErrorMessage(err))]

\* The catch clause of every execute (index.ts:578-580, 707-709, 764-766,
\* 820-822): the text of the payload is the message behind a fixed prefix.
ToolFailure(r, where, err) ==
    [r EXCEPT !.promise = HandlerPromise(TRUE), !.threwAt = where,
              !.result = Some("MAMA error: " \o getErrorMessage(err))]

\* return { content: [{ type: 'text', text }] }
ToolText(r, text) == [r EXCEPT !.result = Some(text)]

\* params of mama_search: query and limit, each possibly missing
SearchParams ==
    [query : {None, Some(""), Some("  "), Some(" auth ")},
     limit : {None, Some(0), Some(3), Some(50)}]

\* index.ts:569-575 (the backquotes around the id are written as apostrophes)
RECURSIVE SearchLines(_, _)
SearchLines(results, k) ==
    IF k > Len(results) THEN ""
    ELSE LET r == results[k]
         IN  "**" \o ToString(k) \o ". " \o r.topic \o "** [" \o ToString(Pct(r))
             \o "% match]\n"
             \o "   Decision: " \o r.decision \o "\n"
             \o "   Reasoning: " \o formatReasoning(r.reasoning, 150) \o "\n"
             \o "   ID: '" \o r.id \o "' | Outcome: "
             \o (IF Truthy(r.outcome) THEN Val(r.outcome) ELSE "pending") \o "\n\n"
             \o SearchLines(results, k + 1)

\* index.ts:542-581 (the double quotes around the query are written as
\* apostrophes)
mama_search(s, t, cfg, initRes, params, suggestRes, err) ==
    LET i  == initMAMA(s, cfg, initRes)
        r0 == [Run("mama_search", t, i) EXCEPT !.event = Some(params)]
    IN  IF i.threw THEN ToolFailure(r0, "initMAMA", Rethrown(err))
        ELSE
        LET query == Trim(Str(params.query))
        IN  IF query = "" THEN ToolText(r0, "Error: query required")
            ELSE
            \* Math.min(Number(params.limit) || 5, 20)
            LET n == IF IsSome(params.limit) /\ Val(params.limit) # 0
                     THEN Val(params.limit) ELSE 5
                limit == IF n < 20 THEN n ELSE 20
                r1 == [r0 EXCEPT !.calls = <<"suggest(" \o ToString(limit) \o ",0.5)">>]
            IN  IF suggestRes.threw THEN ToolFailure(r1, "suggest", err)
                ELSE IF ~IsSome(suggestRes.val) \/ Len(Val(suggestRes.val)) = 0
                THEN ToolText(r1, "No decisions found for '" \o query
                                  \o "'. This may be a new topic.")
                ELSE ToolText(r1, "Found " \o ToString(Len(Val(suggestRes.val)))
                                  \o " related decisions:\n\n"
                                  \o SearchLines(Val(suggestRes.val), 1))

\* params of mama_save: a checkpoint with summary and next_steps, or a
\* decision (also when the type is missing) with topic, decision, reasoning
\* and confidence (in tenths); each possibly missing
SaveParams ==
    {p \in [type : {None, Some("checkpoint"), Some("decision")},
            summary : {None, Some("Did X")}, next_steps : {None, Some("Do Y")},
            topic : {None, Some("auth")}, decision : {Some(""), Some("Use JWT")},
            reasoning : {None, Some("Scales")}, confidence : {None, Some(5)}] :
        IF p.type = Some("checkpoint")
        THEN p.topic = None /\ p.decision = Some("") /\ p.reasoning = None
             /\ p.confidence = None
        ELSE p.summary = None /\ p.next_steps = None
             /\ (p.confidence # None => p.type # None)}

\* save(): throws, or returns a MAMASaveResult
SaveDecisionResults ==
    {Throws,
     Returns([id |-> "decision_2", warning |-> None, collaboration_hint |-> None]),
     Returns([id |-> "decision_2", warning |-> Some("Similar decision exists"),
              collaboration_hint |-> Some("Consider builds_on: decision_1")])}

\* index.ts:647-710 (the two emoji are written as ! and *)
mama_save(s, t, cfg, initRes, params, checkpointRes, saveRes, err) ==
    LET i  == initMAMA(s, cfg, initRes)
        r0 == [Run("mama_save", t, i) EXCEPT !.event = Some(params)]
        saveType == IF IsSome(params.type) THEN Val(params.type) ELSE "undefined"
    IN  IF i.threw THEN ToolFailure(r0, "initMAMA", Rethrown(err))
        ELSE IF saveType = "checkpoint"
        THEN LET summary == Str(params.summary)
                 nextSteps == Str(params.next_steps)
                 r1 == [r0 EXCEPT !.calls = <<"saveCheckpoint">>,
                                  !.saved = Some(SaveArgs(summary, nextSteps))]
             IN  IF summary = ""
                 THEN ToolText(r0, "Error: summary required for checkpoint")
                 ELSE IF checkpointRes.threw THEN ToolFailure(r1, "saveCheckpoint", err)
                 ELSE ToolText([r1 EXCEPT !.s = Saved(i.s, checkpointRes.val, summary,
                                                      nextSteps, t)],
                               "Checkpoint saved (id: "
                               \o ToString(checkpointRes.val) \o ")")
        ELSE LET topic == Str(params.topic)
                 decision == Str(params.decision)
                 reasoning == Str(params.reasoning)
                 confidence == IF IsSome(params.confidence) /\ Val(params.confidence) # 0
                               THEN Val(params.confidence) ELSE 8
                 r1 == [r0 EXCEPT !.calls = <<"save">>,
                                  !.saved = Some([topic |-> topic, decision |-> decision,
                                                  reasoning |-> reasoning,
                                                  confidence |-> confidence,
                                                  type |-> "assistant_insight"])]
             IN  IF topic = "" \/ decision = "" \/ reasoning = ""
                 THEN ToolText(r0, "Error: topic, decision, and reasoning all required")
                 ELSE IF saveRes.threw THEN ToolFailure(r1, "save", err)
                 ELSE ToolText(r1, "Decision saved (id: " \o saveRes.val.id \o ")"
                        \o (IF Truthy(saveRes.val.warning)
                            THEN "\n! " \o Val(saveRes.val.warning) ELSE "")
                        \o (IF Truthy(saveRes.val.collaboration_hint)
                            THEN "\n* " \o Val(saveRes.val.collaboration_hint) ELSE ""))

\* index.ts:742-744 and 758-760
RECURSIVE LoadedLines(_, _, _)
LoadedLines(recent, withOutcome, k) ==
    IF k > Len(recent) THEN ""
    ELSE (IF withOutcome
          THEN "- **" \o recent[k].topic \o "**: " \o recent[k].decision \o " ("
               \o (IF Truthy(recent[k].outcome) THEN Val(recent[k].outcome)
                   ELSE "pending") \o ")\n"
          ELSE "- " \o recent[k].topic \o ": " \o recent[k].decision \o "\n")
         \o LoadedLines(recent, withOutcome, k + 1)

\* index.ts:729-767
mama_load_checkpoint(s, t, cfg, initRes, loadRes, listRes, err) ==
    LET i  == initMAMA(s, cfg, initRes)
        r0 == Run("mama_load_checkpoint", t, i)
    IN  IF i.threw THEN ToolFailure(r0, "initMAMA", Rethrown(err))
        ELSE
        LET r1 == [r0 EXCEPT !.calls = <<"loadCheckpoint">>]
        IN  IF loadRes.threw THEN ToolFailure(r1, "loadCheckpoint", err)
            ELSE
            LET checkpoint == loadRes.val
                r2 == [r1 EXCEPT !.loaded = Some(checkpoint),
                                 !.calls = @ \o <<"list(5)">>]
            IN  IF listRes.threw THEN ToolFailure(r2, "list", err)
                ELSE
                LET recent == listRes.val
                    r3 == [r2 EXCEPT !.recent = Some(Len(recent))]
                IN  IF ~IsSome(checkpoint)
                    THEN ToolText(r3, "No checkpoint found - fresh start."
                            \o (IF Len(recent) > 0
                                THEN "\n\nRecent decisions:\n"
                                     \o LoadedLines(recent, FALSE, 1)
                                ELSE ""))
                    ELSE IF DateToISOStringThrows(Val(checkpoint).timestamp)
                    THEN ToolFailure(r3, "render",
                                     [t |-> "Error", v |-> "Invalid time value"])
                    ELSE ToolText(r3, "**Checkpoint** ("
                            \o toISOString(DateGetTime(Val(checkpoint).timestamp).ms)
                            \o ")\n\n"
                            \o "**Summary:**\n" \o Val(checkpoint).summary \o "\n\n"
                            \o (IF Val(checkpoint).next_steps # ""
                                THEN "**Next Steps:**\n" \o Val(checkpoint).next_steps
                                     \o "\n\n"
                                ELSE "")
                            \o (IF Len(recent) > 0
                                THEN "**Recent Decisions:**\n"
                                     \o LoadedLines(recent, TRUE, 1)
                                ELSE ""))

\* params of mama_update: id, outcome and reason, each possibly missing
UpdateParams ==
    [id : {None, Some(""), Some("decision_1")},
     outcome : {None, Some("success"), Some("failed"), Some("partial")},
     reason : {None, Some("flaky tests")}]

\* index.ts:798-819
mama_update(s, t, cfg, initRes, params, updateRes, err) ==
    LET i  == initMAMA(s, cfg, initRes)
        r0 == [Run("mama_update", t, i) EXCEPT !.event = Some(params)]
    IN  IF i.threw THEN ToolFailure(r0, "initMAMA", Rethrown(err))
        ELSE
        LET decisionId == Str(params.id)
            outcome == ToUpperCase(Str(params.outcome))
            reason == Str(params.reason)
            r1 == [r0 EXCEPT
                     !.calls = <<"updateOutcome">>,
                     !.saved = Some([id |-> decisionId, outcome |-> outcome,
                                     failure_reason |->
                                        IF outcome = "FAILED" THEN Some(reason) ELSE None,
                                     limitation |->
                                        IF outcome = "PARTIAL" THEN Some(reason) ELSE None])]
        IN  IF decisionId = "" \/ outcome = ""
            THEN ToolText(r0, "Error: id and outcome required")
            ELSE IF updateRes.threw THEN ToolFailure(r1, "updateOutcome", err)
            ELSE ToolText(r1, "Decision " \o decisionId \o " updated to " \o outcome)

-----------------------------------------------------------------------------
(* The plugin as a state machine: the host delivers one event at a time *)

NoRun == [Run("none", 0, NoInit(<<>>)) EXCEPT !.s = <<>>]

\* pf records a direct evaluation of a utils.ts function: its arguments, the
\* value of Date.now() it read, and what it returned.
NoEval ==
    [fn |-> "none", timestamp |-> "", threshold |-> 0, now |-> 0, out |-> FALSE]

\* flight records the initMAMA calls that were made without awaiting the one
\* before: for each call the path it resolved and where it is (suspended at
\* `await memoryStore.initDB()`, returned, or threw), and, over all of them,
\* how often initDB was invoked and what was assigned to initialDbPath.
NoFlight == [calls |-> <<>>, initDB |-> 0, written |-> <<>>]

\* The state after the module is loaded, with the environment variable as
\* the process was started.
InitWith(envPaths) ==
    /\ initialized = FALSE
    /\ mama = None
    /\ initialDbPath = None
    /\ MAMA_DB_PATH \in envPaths
    /\ compactionOccurred = FALSE
    /\ sessionStartedAt = None
    /\ lastUserPrompt = None
    /\ lastCompactionAt = None
    /\ lastAutoCaptureCandidates = <<>>
    /\ now = 0
    /\ ticks = 0
    /\ store = None
    /\ last = NoRun
    /\ notesSinceCompaction = 0
    /\ noteDue = "no"
    /\ detections = <<>>
    /\ pf = NoEval
    /\ flight = NoFlight

Init == InitWith({None})

\* The candidates a run of agent_end detected, in order: one line of console
\* output for each (index.ts:370).
RECURSIVE Detected(_, _)
Detected(logs, k) ==
    IF k > Len(logs) THEN <<>>
    ELSE (IF StartsWith(logs[k], CANDIDATE_LOG)
          THEN <<SubSeq(logs[k], Len(CANDIDATE_LOG) + 1, Len(logs[k]))>>
          ELSE <<>>)
         \o Detected(logs, k + 1)

\* The distinct candidates of `seen` followed by `found`, the most recently
\* detected first, the 3 most recent kept.
RECURSIVE MostRecent(_, _, _)
MostRecent(seen, found, k) ==
    IF k > Len(found) THEN seen
    ELSE LET others == SelectSeq(seen, LAMBDA c : c # found[k])
             all == <<found[k]>> \o others
         IN  MostRecent(SubSeq(all, 1, IF Len(all) < 3 THEN Len(all) ELSE 3),
                        found, k + 1)

\* The note is in the block a run returned.
HasNote(r) ==
    IsSome(r.result) /\ Includes(Val(r.result), "Context was recently compressed")

\* The host delivers one event at a time: no handler is in flight, the
\* handler runs as r, the shared state becomes r.s, and r is recorded until
\* the host has taken the settled promise.
Complete(r) ==
    /\ last.handler = "none"
    /\ initialized' = r.s.initialized
    /\ mama' = r.s.mama
    /\ initialDbPath' = r.s.initialDbPath
    /\ MAMA_DB_PATH' = r.s.MAMA_DB_PATH
    /\ compactionOccurred' = r.s.compactionOccurred
    /\ sessionStartedAt' = r.s.sessionStartedAt
    /\ lastUserPrompt' = r.s.lastUserPrompt
    /\ lastCompactionAt' = r.s.lastCompactionAt
    /\ lastAutoCaptureCandidates' = r.s.lastAutoCaptureCandidates
    /\ store' = r.s.store
    /\ last' = [r EXCEPT !.s = <<>>, !.due = noteDue]
    /\ notesSinceCompaction' =
         IF r.handler = "before_compaction" THEN 0
         ELSE IF HasNote(r) THEN notesSinceCompaction + 1
         ELSE notesSinceCompaction
    /\ noteDue' =
         IF r.handler = "before_compaction"
         THEN (IF r.threwAt = "" \/ noteDue = "saved" THEN "saved" ELSE "handled")
         ELSE IF r.handler \in {"session_start", "before_agent_start"} THEN "no"
         ELSE noteDue
    /\ detections' =
         IF r.handler = "session_start" /\ r.threwAt # "initMAMA" THEN <<>>
         ELSE MostRecent(detections, Detected(r.logs, 1), 1)
    /\ UNCHANGED <<now, ticks, pf, flight>>

\* The host takes the settled promise of the handler that ran.
Settle ==
    /\ last.handler # "none"
    /\ last' = NoRun
    /\ UNCHANGED <<initVars, sessionVars, now, ticks, store, notesSinceCompaction,
                   noteDue, detections, pf, flight>>

\* What the environment of a run of the plugin can do: the configurations
\* the handlers are registered with, whether backend construction and
\* backend calls can fail, the event payloads, and what list({limit: 10})
\* can return when a session ends.
Environment(configs, initFails, callsFail, promptEvents, agentEvents, sessionLists) ==
    [configs |-> configs, initFails |-> initFails,
     callsFail |-> callsFail, promptEvents |-> promptEvents,
     agentEvents |-> agentEvents, sessionLists |-> sessionLists]

\* Time passes between two events: Date.now() advances.
Tick ==
    /\ last.handler = "none"
    /\ ticks < MaxTicks
    /\ now' = now + ClockStep(ticks + 1)
    /\ ticks' = ticks + 1
    /\ UNCHANGED <<initVars, sessionVars, store, last, notesSinceCompaction,
                   noteDue, detections, pf, flight>>

\* The outcome of backend construction is drawn when initMAMA gets to it,
\* and the result of a backend call when the handler can get to the call.
InitOutcomesAt(E) ==
    IF initialized THEN {"ok"}
    ELSE IF E.initFails THEN InitOutcomes ELSE {"ok"}
InitSucceeds(initRes) == initialized \/ initRes = "ok"
Results(E, reached, results) ==
    IF ~reached THEN {Throws}
    ELSE IF E.callsFail THEN results ELSE Up(results)

SessionStart(E) ==
    \E cfg \in E.configs, initRes \in InitOutcomesAt(E) :
    \E loadRes \in Results(E, InitSucceeds(initRes), LoadResults(Cur)) :
    \E listRes \in Results(E, ~loadRes.threw, ListResults) :
        Complete(session_start(Cur, now, cfg, initRes, loadRes, listRes))

BeforeAgentStart(E) ==
    \E cfg \in E.configs, initRes \in InitOutcomesAt(E),
       event \in E.promptEvents :
    \E suggestRes \in Results(E, InitSucceeds(initRes) /\ Searches(PromptOf(event)),
                              SuggestResults),
       loadRes \in Results(E, InitSucceeds(initRes), LoadResults(Cur)) :
    \E listRes \in Results(E, /\ ~loadRes.threw
                              /\ SemanticResults(Searches(PromptOf(event)),
                                                 suggestRes) = <<>>,
                           ListResults) :
        Complete(before_agent_start(Cur, now, cfg, initRes, event, suggestRes,
                                    loadRes, listRes))

AgentEnd(E) ==
    \E cfg \in E.configs, initRes \in InitOutcomesAt(E),
       event \in E.agentEvents :
        Complete(agent_end(Cur, now, cfg, initRes, event))

SessionEnd(E) ==
    \E cfg \in E.configs, initRes \in InitOutcomesAt(E) :
    \E loadRes \in Results(E, InitSucceeds(initRes), LoadResults(Cur)) :
    \E listRes \in Results(E, ~loadRes.threw,
                           {Throws} \cup {Returns(list) : list \in E.sessionLists}) :
    \E saveRes \in Results(E, ~listRes.threw, SaveResults) :
        Complete(session_end(Cur, now, cfg, initRes, loadRes, listRes, saveRes))

BeforeCompaction(E) ==
    \E cfg \in E.configs, initRes \in InitOutcomesAt(E) :
    \E saveRes \in Results(E, InitSucceeds(initRes), SaveResults) :
        Complete(before_compaction(Cur, now, cfg, initRes, saveRes))

AfterCompaction(E) ==
    \E cfg \in E.configs, initRes \in InitOutcomesAt(E) :
    \E loadRes \in Results(E, InitSucceeds(initRes), LoadResults(Cur)) :
    \E listRes \in Results(E, ~loadRes.threw, ListResults) :
        Complete(after_compaction(Cur, now, cfg, initRes, loadRes, listRes))

Handle(E) ==
    \/ Settle
    \/ SessionStart(E)
    \/ BeforeAgentStart(E)
    \/ AgentEnd(E)
    \/ SessionEnd(E)
    \/ BeforeCompaction(E)
    \/ AfterCompaction(E)

\* The lifecycle of one registration without a configured path: time passes,
\* backend construction and every backend call can fail.  The event of a turn
\* is not a record or carries a prompt.
Lifecycle ==
    Environment({None}, TRUE, TRUE,
                {e \in PromptEvents :
                    ~e.isRecord \/ (e.prompt.t = "string" /\ e.prompt.v # "")},
                AgentEvents, {<<>>, <<D1>>})

Next == Tick \/ Handle(Lifecycle)

Spec == Init /\ [][Next]_vars

\* Registrations with different configured paths, and a preset environment
\* variable, over a backend whose construction can fail and whose calls
\* succeed.  The prompt of a turn is not a string, empty, or long enough to
\* search.  The decisions listed when a session ends include one whose topic
\* is blank.
Registrations ==
    Environment(Configs, TRUE, FALSE,
                {e \in PromptEvents : e.isRecord /\ e.prompt.v # "abcd"},
                AgentEvents, {<<>>, <<D1>>, <<[D1 EXCEPT !.topic = " "]>>})

InitEnv == InitWith({None, Some(""), Some("/env.db")})

NextInit == Handle(Registrations)

SpecInit == InitEnv /\ [][NextInit]_vars

-----------------------------------------------------------------------------
(* The detector of agent_end over texts that probe each of its rules *)

\* str n times, a half at a time
RECURSIVE Repeat(_, _)
Repeat(str, n) ==
    IF n <= 0 THEN ""
    ELSE IF n = 1 THEN str
    ELSE Repeat(str, n \div 2) \o Repeat(str, n - n \div 2)

\* Texts of n characters that match the first decision pattern, for lengths
\* around the limits of index.ts:357; those of 200 and 500 characters differ
\* only after the 160 characters truncateText keeps (index.ts:365).
LengthProbes == [n \in {19, 20, 200, 500, 501} |-> "decided" \o Repeat("x", n - 7)]
\* a text that mentions the tag of injected context without being markup
TEXT_MENTION == "I decided that <relevant-memories> is too noisy."

\* The blocks before_agent_start returns when there is no compaction note.
RenderedBlocks ==
    {RenderContext(cp, sem, rec, "") :
        cp \in {None} \cup {Some(c) : c \in {x \in ExternalCheckpoints :
                                               ~DateToISOStringThrows(x.timestamp)}},
        sem \in {<<>>, <<D1>>}, rec \in {<<>>, <<D1>>}}

\* a successful turn whose messages carry the given texts
Turn(texts) ==
    AgentEvent(TRUE, Some([k \in 1..Len(texts) |->
                              Message(IF k % 2 = 1 THEN "user" ELSE "assistant",
                                      ContentString(texts[k]))]))

CaptureEvents ==
    {Turn(<<TEXT_DECIDED>>), Turn(<<TEXT_STRATEGY>>),
     Turn(<<LengthProbes[19], LengthProbes[20], LengthProbes[500], LengthProbes[501]>>),
     Turn(<<LengthProbes[200]>>), Turn(<<TEXT_MENTION>>)}
    \cup {Turn(<<block>>) : block \in RenderedBlocks}

\* One session of turns over a backend that is up: every turn has a prompt
\* long enough to search, of 5, 200 or 500 characters, and the messages of a
\* finished turn are decision texts, texts at the length limits, or an echo
\* of an injected block.
Detection ==
    Environment({None}, FALSE, FALSE,
                {e \in PromptEvents : e.prompt.v = "abcde"}
                \cup {[isRecord |-> TRUE, prompt |-> JsString(LengthProbes[n])] :
                         n \in {200, 500}},
                CaptureEvents, {})

NextCapture ==
    \/ Settle
    \/ SessionStart(Detection)
    \/ BeforeAgentStart(Detection)
    \/ AgentEnd(Detection)

SpecCapture == Init /\ [][NextCapture]_vars

-----------------------------------------------------------------------------
(* The tools, invoked one at a time *)

\* err is what the step that fails throws, if one does

MamaSearch(E) ==
    \E cfg \in E.configs, initRes \in InitOutcomesAt(E), params \in SearchParams :
    \E suggestRes \in Results(E, InitSucceeds(initRes)
                                 /\ Trim(Str(params.query)) # "", SuggestResults) :
    \E err \in Thrown :
        Complete(mama_search(Cur, now, cfg, initRes, params, suggestRes, err))

MamaSave(E) ==
    \E cfg \in E.configs, initRes \in InitOutcomesAt(E), params \in SaveParams :
    \E checkpointRes \in Results(E, /\ InitSucceeds(initRes)
                                    /\ params.type = Some("checkpoint")
                                    /\ Truthy(params.summary), SaveResults),
       saveRes \in Results(E, /\ InitSucceeds(initRes)
                              /\ params.type # Some("checkpoint")
                              /\ Truthy(params.topic) /\ Truthy(params.decision)
                              /\ Truthy(params.reasoning), SaveDecisionResults) :
    \E err \in Thrown :
        Complete(mama_save(Cur, now, cfg, initRes, params, checkpointRes, saveRes,
                           err))

MamaLoadCheckpoint(E) ==
    \E cfg \in E.configs, initRes \in InitOutcomesAt(E) :
    \E loadRes \in Results(E, InitSucceeds(initRes), LoadResults(Cur)) :
    \E listRes \in Results(E, ~loadRes.threw, ListResults) :
    \E err \in Thrown :
        Complete(mama_load_checkpoint(Cur, now, cfg, initRes, loadRes, listRes, err))

MamaUpdate(E) ==
    \E cfg \in E.configs, initRes \in InitOutcomesAt(E), params \in UpdateParams :
    \E updateRes \in Results(E, /\ InitSucceeds(initRes)
                                /\ Truthy(params.id) /\ Truthy(params.outcome),
                             {Throws, Returns(<<>>)}) :
    \E err \in Thrown :
        Complete(mama_update(Cur, now, cfg, initRes, params, updateRes, err))

\* Tool calls of one registration over a backend whose construction and
\* calls can fail.
Tooling == Environment({None}, TRUE, TRUE, {}, {}, {})

NextTools ==
    \/ Settle
    \/ MamaSearch(Tooling)
    \/ MamaSave(Tooling)
    \/ MamaLoadCheckpoint(Tooling)
    \/ MamaUpdate(Tooling)

\* Events and tool calls that keep arriving at a backend whose construction
\* fails until it can be constructed: the host delivers one event at a time
\* and takes every settled promise, and time and again a call of initMAMA
\* finds a backend that loads and whose initDB resolves.  agent_end is
\* registered with any of the configured paths, the others without one.
NextRecovery ==
    \/ Settle
    \/ SessionStart(Tooling)
    \/ AgentEnd(Registrations)
    \/ BeforeCompaction(Tooling)
    \/ MamaLoadCheckpoint(Tooling)

Constructible == NextRecovery /\ last'.initCalled /\ ~last'.initThrew

SpecRecovery ==
    Init /\ [][NextRecovery]_vars /\ WF_vars(Settle) /\ SF_vars(Constructible)

SpecTools == Init /\ [][NextTools]_vars

-----------------------------------------------------------------------------
(* isRecentCheckpoint evaluated directly, as src/tests/utils.test.js does *)

Timestamps == {toISOString(t) : t \in Instants} \cup {"not-a-date"}

\* thresholds around the age of the checkpoint, and the ones the tests pass
Thresholds(timestamp, nowMs) ==
    {nowMs - DateGetTime(timestamp).ms + d : d \in (0 - MaxSlack)..MaxSlack}
    \cup {2 * 60 * 1000, 20 * 60 * 1000}

Evaluation(timestamp, thresholdMs, nowMs) ==
    [fn |-> "isRecentCheckpoint", timestamp |-> timestamp,
     threshold |-> thresholdMs, now |-> nowMs,
     out |-> isRecentCheckpoint(timestamp, thresholdMs, nowMs)]

\* isRecentCheckpoint(timestamp, thresholdMs)
IsRecentWithThreshold ==
    /\ \E timestamp \in Timestamps, nowMs \in Instants :
       \E thresholdMs \in Thresholds(timestamp, nowMs) :
           pf' = Evaluation(timestamp, thresholdMs, nowMs)
    /\ UNCHANGED <<initVars, sessionVars, now, ticks, store, last,
                   notesSinceCompaction, noteDue, detections, flight>>

\* isRecentCheckpoint(timestamp): thresholdMs takes its default
IsRecentWithDefault ==
    /\ \E timestamp \in Timestamps, nowMs \in Instants :
           pf' = Evaluation(timestamp, DEFAULT_THRESHOLD_MS, nowMs)
    /\ UNCHANGED <<initVars, sessionVars, now, ticks, store, last,
                   notesSinceCompaction, noteDue, detections, flight>>

NextRecent == IsRecentWithThreshold \/ IsRecentWithDefault

SpecRecent == Init /\ [][NextRecent]_vars

-----------------------------------------------------------------------------
(* formatReasoning evaluated directly, as src/tests/utils.test.js does *)

\* the reasoning texts of the tests, and texts whose annotation is at the
\* start, in other letter case, incomplete, unclosed, or followed by another
ReasoningTexts ==
    {"",
     "Simple reasoning",
     "This decision builds_on: prev_decision_123 and more text here to exceed limit",
     "This debates: other_idea and provides alternative approach with more context",
     "This synthesizes: [idea_1, idea_2] combining multiple approaches for better results",
     "builds_on: base_idea and then we added more features",
     "Some long preamble text that will be truncated. builds_on: base_idea and then more text",
     "Builds_On:  base-idea, which DEBATES: other_idea",
     "It builds_on: (nothing) and debates:old-plan.",
     "synthesizes: [idea_1, idea_2 is left open; builds_on:x1",
     "synthesizes:[a] [b] debates: c",
     "synthesizes: [] is empty. Debates:\n plan_b\nNext paragraph",
     "Mentions builds_on and debates but links nothing"}

\* maxLen: the budgets of the tests and of the callers, and budgets that cut
\* before, within and after an annotation
Budgets == {0, 5, 10, 14, 20, 24, 30, 42, 60, 80, 100, 150, 200}

\* formatReasoning(reasoning, maxLen)
FormatReasoning ==
    /\ \E reasoning \in ReasoningTexts, maxLen \in Budgets :
           pf' = [fn |-> "formatReasoning", reasoning |-> reasoning,
                  maxLen |-> maxLen, out |-> formatReasoning(reasoning, maxLen)]
    /\ UNCHANGED <<initVars, sessionVars, now, ticks, store, last,
                   notesSinceCompaction, noteDue, detections, flight>>

SpecReasoning == Init /\ [][FormatReasoning]_vars

-----------------------------------------------------------------------------
(* initMAMA called again while an earlier call is suspended (index.ts:126-159) *)

CallInitMutJoins(cfg, requireRes) ==
    /\ Len(flight.calls) < MaxCalls
    /\ LET dbPath == ResolveDbPath(Cur, cfg)
           call(at) == [dbPath |-> dbPath, at |-> at]
       IN  IF initialized \/ \E k \in 1..Len(flight.calls) : flight.calls[k].at = "initDB"
           THEN /\ flight' = [flight EXCEPT !.calls = @ \o <<call("returned")>>]
                /\ UNCHANGED initVars
           ELSE /\ MAMA_DB_PATH' = Some(dbPath)
                /\ IF requireRes = "requireThrows"
                   THEN /\ flight' = [flight EXCEPT !.calls = @ \o <<call("threw")>>]
                        /\ UNCHANGED mama
                   ELSE /\ flight' = [flight EXCEPT !.calls = @ \o <<call("initDB")>>,
                                                   !.initDB = @ + 1]
                        /\ mama' = Some("mama-api")
                /\ UNCHANGED <<initialized, initialDbPath>>
    /\ UNCHANGED <<sessionVars, now, ticks, store, last, notesSinceCompaction,
                   noteDue, detections, pf>>

\* index.ts:127-149: initMAMA from its call to its first suspension.  It
\* resolves the path and returns when `initialized` is set; otherwise it
\* writes MAMA_DB_PATH, loads the modules and invokes initDB, whose promise
\* it awaits.
CallInit(cfg, requireRes) ==
    /\ Len(flight.calls) < MaxCalls
    /\ LET dbPath == ResolveDbPath(Cur, cfg)
           call(at) == [dbPath |-> dbPath, at |-> at]
       IN  IF initialized
           THEN /\ flight' = [flight EXCEPT !.calls = @ \o <<call("returned")>>]
                /\ UNCHANGED initVars
           ELSE /\ MAMA_DB_PATH' = Some(dbPath)
                /\ IF requireRes = "requireThrows"
                   THEN /\ flight' = [flight EXCEPT !.calls = @ \o <<call("threw")>>]
                        /\ UNCHANGED mama
                   ELSE /\ flight' = [flight EXCEPT !.calls = @ \o <<call("initDB")>>,
                                                   !.initDB = @ + 1]
                        /\ mama' = Some("mama-api")
                /\ UNCHANGED <<initialized, initialDbPath>>
    /\ UNCHANGED <<sessionVars, now, ticks, store, last, notesSinceCompaction,
                   noteDue, detections, pf>>

\* index.ts:149-158: the k-th call resumes when the promise of initDB
\* settles, and sets `initialized` and `initialDbPath`, or logs and throws.
ResumeInit(k, initDBRes) ==
    /\ flight.calls[k].at = "initDB"
    /\ IF initDBRes = "ok"
       THEN /\ initialized' = TRUE
            /\ initialDbPath' = Some(flight.calls[k].dbPath)
            /\ flight' = [flight EXCEPT !.calls[k].at = "returned",
                                        !.written = @ \o <<flight.calls[k].dbPath>>]
       ELSE /\ flight' = [flight EXCEPT !.calls[k].at = "threw"]
            /\ UNCHANGED <<initialized, initialDbPath>>
    /\ UNCHANGED <<mama, MAMA_DB_PATH, sessionVars, now, ticks, store, last,
                   notesSinceCompaction, noteDue, detections, pf>>

\* Calls of initMAMA by handlers registered with different paths, each made
\* whether or not the calls before it have settled.  require() throws only
\* as long as no call has loaded the modules, which Node caches; the
\* promises of initDB settle in any order.
NextOverlap ==
    \/ \E cfg \in Configs :
       \E requireRes \in (IF flight.initDB = 0 THEN {"ok", "requireThrows"} ELSE {"ok"}) :
           CallInit(cfg, requireRes)
    \/ \E k \in 1..Len(flight.calls), initDBRes \in {"ok", "initDBThrows"} :
           ResumeInit(k, initDBRes)

SpecOverlap == InitEnv /\ [][NextOverlap]_vars

-----------------------------------------------------------------------------
(* before_agent_start delivered again while an earlier one is suspended
   (index.ts:215-308) *)

\* The state after the backend was initialized without a configured path and
\* one before_compaction event has saved its checkpoint and set the flag.
InitCompacted ==
    /\ initialized = TRUE
    /\ mama = Some("mama-api")
    /\ initialDbPath = Some(DEFAULT_DB_PATH)
    /\ MAMA_DB_PATH = Some(DEFAULT_DB_PATH)
    /\ compactionOccurred = TRUE
    /\ sessionStartedAt = None
    /\ lastUserPrompt = None
    /\ lastCompactionAt = Some(toISOString(0))
    /\ lastAutoCaptureCandidates = <<>>
    /\ now = 0
    /\ ticks = 0
    /\ store = Some(Checkpoint(CHECKPOINT_ID,
                               PRE_COMPACTION_PREFIX \o toISOString(0)
                               \o ". Context will be compressed.",
                               PRE_COMPACTION_NEXT, toISOString(0)))
    /\ last = NoRun
    /\ notesSinceCompaction = 0
    /\ noteDue = "saved"
    /\ detections = <<>>
    /\ pf = NoEval
    /\ flight = NoFlight

\* index.ts:215-217: the handler is called and suspends at
\* `await initMAMA(config)`, which returns at once on the initialized
\* backend.  `overlaps` records whether an earlier handler was suspended.
StartTurn(event) ==
    /\ Len(flight.calls) < MaxCalls
    /\ flight' = [flight EXCEPT !.calls = @ \o
          <<[userPrompt |-> PromptOf(event), at |-> "initMAMA",
             semanticResults |-> <<>>, checkpoint |-> None, result |-> None,
             overlaps |-> \E k \in 1..Len(flight.calls) :
                             flight.calls[k].at # "returned"]>>]
    /\ UNCHANGED <<initVars, sessionVars, now, ticks, store, last,
                   notesSinceCompaction, noteDue, detections, pf>>

ResumeTurnMutTestsBeforeAwait(k, res) ==
    LET turn == flight.calls[k]
        goes(at) == [turn EXCEPT !.at = at]
        returns(checkpoint, recentDecisions, note) ==
            [turn EXCEPT
               !.at = "returned",
               !.checkpoint = checkpoint,
               !.result =
                  IF ShouldInject(checkpoint, turn.semanticResults, recentDecisions)
                     /\ ~RenderThrows(checkpoint)
                  THEN Some(RenderContext(checkpoint, turn.semanticResults,
                                          recentDecisions, note))
                  ELSE None]
        c == ConsumeCompactionFlag(Cur)
    IN  /\ turn.at \notin {"returned"}
        /\ IF turn.at = "initMAMA"
           THEN /\ lastUserPrompt' = IF turn.userPrompt # ""
                                     THEN Some(truncateText(turn.userPrompt, 200))
                                     ELSE None
                /\ flight' = [flight EXCEPT !.calls[k] =
                                 goes(IF Searches(turn.userPrompt)
                                      THEN "suggest" ELSE "loadCheckpoint")]
                /\ UNCHANGED compactionOccurred
           ELSE IF turn.at = "suggest"
           THEN /\ flight' = [flight EXCEPT !.calls[k] =
                                 [goes("loadCheckpoint") EXCEPT
                                    !.semanticResults = SemanticResults(TRUE, res)]]
                /\ UNCHANGED <<lastUserPrompt, compactionOccurred>>
           ELSE IF res.threw
           THEN /\ flight' = [flight EXCEPT !.calls[k] = goes("returned")]
                /\ UNCHANGED <<lastUserPrompt, compactionOccurred>>
           ELSE IF turn.at = "loadCheckpoint" /\ Len(turn.semanticResults) = 0
           THEN /\ flight' = [flight EXCEPT !.calls[k] =
                                 [goes("list") EXCEPT !.checkpoint = res.val,
                                                      !.result = Some(c.note)]]
                /\ UNCHANGED <<lastUserPrompt, compactionOccurred>>
           ELSE /\ flight' = [flight EXCEPT !.calls[k] =
                                 IF turn.at = "loadCheckpoint"
                                 THEN returns(res.val, <<>>, c.note)
                                 ELSE returns(turn.checkpoint, res.val, Val(turn.result))]
                /\ compactionOccurred' = FALSE
                /\ UNCHANGED lastUserPrompt
        /\ UNCHANGED <<initVars, sessionStartedAt, lastCompactionAt,
                       lastAutoCaptureCandidates, now, ticks, store, last,
                       notesSinceCompaction, noteDue, detections, pf>>

\* index.ts:219-308: the k-th handler resumes with what the promise it
\* awaits has settled to, and runs to its next await or to its return.
\* Lines 247-304 have no await: the flag is tested and cleared, and the
\* block rendered and returned, in one step.
ResumeTurn(k, res) ==
    LET turn == flight.calls[k]
        goes(at) == [turn EXCEPT !.at = at]
        returns(checkpoint, recentDecisions, note) ==
            [turn EXCEPT
               !.at = "returned",
               !.checkpoint = checkpoint,
               !.result =
                  IF ShouldInject(checkpoint, turn.semanticResults, recentDecisions)
                     /\ ~RenderThrows(checkpoint)
                  THEN Some(RenderContext(checkpoint, turn.semanticResults,
                                          recentDecisions, note))
                  ELSE None]
        c == ConsumeCompactionFlag(Cur)
    IN  /\ turn.at \notin {"returned"}
        /\ IF turn.at = "initMAMA"
           THEN /\ lastUserPrompt' = IF turn.userPrompt # ""
                                     THEN Some(truncateText(turn.userPrompt, 200))
                                     ELSE None
                /\ flight' = [flight EXCEPT !.calls[k] =
                                 goes(IF Searches(turn.userPrompt)
                                      THEN "suggest" ELSE "loadCheckpoint")]
                /\ UNCHANGED compactionOccurred
           ELSE IF turn.at = "suggest"
           THEN /\ flight' = [flight EXCEPT !.calls[k] =
                                 [goes("loadCheckpoint") EXCEPT
                                    !.semanticResults = SemanticResults(TRUE, res)]]
                /\ UNCHANGED <<lastUserPrompt, compactionOccurred>>
           ELSE IF res.threw
           THEN /\ flight' = [flight EXCEPT !.calls[k] = goes("returned")]
                /\ UNCHANGED <<lastUserPrompt, compactionOccurred>>
           ELSE IF turn.at = "loadCheckpoint" /\ Len(turn.semanticResults) = 0
           THEN /\ flight' = [flight EXCEPT !.calls[k] =
                                 [goes("list") EXCEPT !.checkpoint = res.val]]
                /\ UNCHANGED <<lastUserPrompt, compactionOccurred>>
           ELSE /\ flight' = [flight EXCEPT !.calls[k] =
                                 IF turn.at = "loadCheckpoint"
                                 THEN returns(res.val, <<>>, c.note)
                                 ELSE returns(turn.checkpoint, res.val, c.note)]
                /\ compactionOccurred' = c.s.compactionOccurred
                /\ UNCHANGED lastUserPrompt
        /\ UNCHANGED <<initVars, sessionStartedAt, lastCompactionAt,
                       lastAutoCaptureCandidates, now, ticks, store, last,
                       notesSinceCompaction, noteDue, detections, pf>>

\* The host delivers before_agent_start events without awaiting the handler
\* of the one before; the promises of the backend settle in any order.
NextTurns ==
    \/ \E event \in {e \in PromptEvents : ~e.isRecord \/ e.prompt.v = "abcde"} :
           StartTurn(event)
    \/ \E k \in 1..Len(flight.calls) :
       \E res \in (IF flight.calls[k].at = "suggest" THEN SuggestResults
                   ELSE IF flight.calls[k].at = "loadCheckpoint" THEN LoadResults(Cur)
                   ELSE IF flight.calls[k].at = "list" THEN ListResults
                   ELSE {Returns(<<>>)}) :
           ResumeTurn(k, res)

SpecTurns == InitCompacted /\ [][NextTurns]_vars

-----------------------------------------------------------------------------
(* Properties *)

\* The run recorded in `last` is of handler `name`.
Ran(name) == last.handler = name

Invoked(r, call) == \E k \in 1..Len(r.calls) : r.calls[k] = call

\* C1: once the backend is initialized, initialized stays true and
\* initialDbPath never changes; a later initMAMA call neither runs initDB nor
\* touches MAMA_DB_PATH, and when it resolves a different dbPath it logs the
\* warning and the original path remains in effect.
C1_InitOnceStep ==
    initialized =>
        /\ initialized'
        /\ initialDbPath' = initialDbPath
        /\ MAMA_DB_PATH' = MAMA_DB_PATH
        /\ (last'.handler # "none" /\ last'.initCalled) =>
              /\ ~last'.initDB
              /\ ~last'.initThrew
              /\ (last'.dbPath # Val(initialDbPath)
                    <=> HasLog(last', "warn: different dbPath"))
C1_InitOnce == [][C1_InitOnceStep]_vars

\* C1 witness: a handler registered with another path ran on the initialized
\* backend, was warned, and the original path is still in effect.
C1_Witness ==
    /\ initialized
    /\ last.handler # "none" /\ last.initCalled
    /\ last.dbPath # Val(initialDbPath)
    /\ HasLog(last, "warn: different dbPath")
    /\ ~last.initDB
    /\ MAMA_DB_PATH = initialDbPath

C3_BlockHasContent ==
    (Ran("before_agent_start") /\ IsSome(last.result)) =>
        /\ \/ IsSome(last.loaded) /\ IsSome(Val(last.loaded))
           \/ IsSome(last.semantic) /\ Val(last.semantic) > 0
           \/ IsSome(last.recent) /\ Val(last.recent) > 0
        /\ \/ Includes(Val(last.result), CHECKPOINT_HEADING)
           \/ Includes(Val(last.result), RELEVANT_HEADING)
           \/ Includes(Val(last.result), RECENT_HEADING)

\* C3 witness: a block was returned whose only content is the recent list,
\* together with the compaction note.
C3_Witness ==
    /\ Ran("before_agent_start") /\ IsSome(last.result)
    /\ last.loaded = Some(None)
    /\ last.semantic = Some(0)
    /\ last.recent = Some(1)
    /\ last.flagRead = Some(TRUE)

\* C4: between two consecutive before_compaction events at most one
\* before_agent_start returns the recovery note, and right after a
\* before_agent_start that read compactionOccurred as true the flag is false.
C4_FlagConsumedOnce ==
    /\ notesSinceCompaction <= 1
    /\ (Ran("before_agent_start") /\ last.flagRead = Some(TRUE))
          => ~compactionOccurred

\* C4 witness: a before_agent_start that returned a block without the note,
\* after an earlier one has returned the note of the same compaction.
C4_Witness ==
    /\ notesSinceCompaction = 1
    /\ Ran("before_agent_start")
    /\ last.flagRead = Some(FALSE)
    /\ IsSome(last.result)
    /\ ~HasNote(last)

\* C5: the before_agent_start that follows a before_compaction
\* event, with no session_start in between, returns a context containing
\* 'Context was recently compressed'.
C5_NoteAfterCompaction ==
    (Ran("before_agent_start") /\ last.due # "no") => HasNote(last)

\* session_end was skipped: loadCheckpoint returned a checkpoint less than
\* 300000 ms old.
SkippedByAge ==
    /\ IsSome(last.loaded) /\ IsSome(Val(last.loaded))
    /\ LET checkpointTime == DateGetTime(Val(Val(last.loaded)).timestamp)
       IN  ~checkpointTime.nan /\ last.at - checkpointTime.ms < 300000

\* C6: session_end writes an auto-checkpoint if and only if it is
\* not skipped; skipped runs invoke neither list nor saveCheckpoint.
C6_WritesIffNotSkipped ==
    Ran("session_end") =>
        /\ Invoked(last, "saveCheckpoint") <=> ~SkippedByAge
        /\ SkippedByAge => last.calls = <<"loadCheckpoint">>

\* an evaluation of isRecentCheckpoint on a valid timestamp
EvaluatedValid ==
    pf.fn = "isRecentCheckpoint" /\ ~DateGetTime(pf.timestamp).nan

\* N - T of the evaluation
Age == pf.now - DateGetTime(pf.timestamp).ms

\* C7 as stated: isRecentCheckpoint is true for every threshold >= N - T and
\* false for every threshold < N - T.
C7_MonotoneInclusive ==
    EvaluatedValid =>
        /\ pf.threshold >= Age => pf.out
        /\ pf.threshold < Age => ~pf.out

\* C7: for a valid timestamp T and current time N, isRecentCheckpoint is
\* true for every threshold > N - T and false for every threshold <= N - T.
C7_MonotoneStrict ==
    EvaluatedValid =>
        /\ pf.threshold > Age => pf.out
        /\ pf.threshold <= Age => ~pf.out

\* C7 witness: the threshold one millisecond above N - T of a checkpoint in
\* the past, where the function returned true.
C7_Witness ==
    /\ EvaluatedValid
    /\ Age > 0
    /\ pf.threshold = Age + 1
    /\ pf.out

\* C8: a before_compaction in which initialization succeeded invokes
\* saveCheckpoint exactly once, with a summary that begins 'Pre-compaction
\* checkpoint', and invokes nothing else: it does not load the existing
\* checkpoint first.
C8_AlwaysCheckpoints ==
    (Ran("before_compaction") /\ ~last.initThrew) =>
        /\ last.calls = <<"saveCheckpoint">>
        /\ last.loaded = None
        /\ IsSome(last.saved)
        /\ StartsWith(Val(last.saved).summary, "Pre-compaction checkpoint")

\* C8 witness: before_compaction wrote its checkpoint at the very instant of
\* the checkpoint that was already stored.
C8_Witness ==
    /\ Ran("before_compaction") /\ ~last.initThrew
    /\ last.threwAt = ""
    /\ last.at > 0
    /\ last.calls = <<"saveCheckpoint">>
    /\ IsSome(store) /\ StartsWith(Val(store).summary, "Pre-compaction checkpoint")
    /\ Val(store).timestamp = toISOString(last.at)
    /\ notesSinceCompaction = 0 /\ compactionOccurred /\ last.due = "saved"

\* C9: after any before_compaction handler completes,
\* compactionOccurred is true and lastCompactionAt is the time of that
\* compaction.
C9_CompactionRecorded ==
    Ran("before_compaction") =>
        /\ compactionOccurred
        /\ lastCompactionAt = Some(toISOString(last.at))

\* the SessionState of a session that started at instant t
IsFreshSession(t) ==
    /\ sessionStartedAt = Some(toISOString(t))
    /\ lastUserPrompt = None
    /\ lastCompactionAt = None
    /\ lastAutoCaptureCandidates = <<>>
    /\ compactionOccurred = FALSE

-----------------------------------------------------------------------------
-----------------------------------------------------------------------------
\* C12: agent_end acts only on a successful event with messages.  When the
\* event is not a record, its success is not `true`, or its messages are
\* missing or empty, the handler returns without calling initMAMA and without
\* a backend call, and leaves InitState, SessionState and the backend as
\* they were.
C12_GuardedReturn ==
    [][(/\ last.handler = "none"
        /\ last'.handler = "agent_end"
        /\ LET e == Val(last'.event)
           IN  \/ ~e.isRecord
               \/ e.success # TRUE
               \/ e.messages = None
               \/ e.messages = Some(<<>>))
       => (/\ ~last'.initCalled
           /\ last'.calls = <<>>
           /\ last'.logs = <<>>
           /\ UNCHANGED <<initVars, sessionVars, store>>)]_vars

\* an unsuccessful event that carries a decision text arrived before the
\* backend was initialised
C12_Witness ==
    /\ Ran("agent_end")
    /\ Val(last.event).isRecord
    /\ Val(last.event).success = FALSE
    /\ Val(last.event).messages # None
    /\ ~initialized
    /\ ~last.initCalled

-----------------------------------------------------------------------------
\* the event of the agent_end run that completed last, and its texts
LastTexts == ExtractTexts(MessagesOf(Val(last.event)), 1)
Candidates == {lastAutoCaptureCandidates[k] : k \in 1..Len(lastAutoCaptureCandidates)}
AgentEndStep == last.handler = "none" /\ last'.handler = "agent_end"

\* C13: lastAutoCaptureCandidates always has at most 3 entries, no two of
\* them equal, and a run of agent_end that detects only candidates whose
\* truncated text is already in the sequence leaves the sequence as it was.
C13_CappedDistinct ==
    /\ [](/\ Len(lastAutoCaptureCandidates) <= 3
          /\ \A j, k \in 1..Len(lastAutoCaptureCandidates) :
                lastAutoCaptureCandidates[j] = lastAutoCaptureCandidates[k] => j = k)
    /\ [][(/\ AgentEndStep
           /\ \A k \in 1..Len(Detected(last'.logs, 1)) :
                 Detected(last'.logs, 1)[k] \in Candidates)
          => lastAutoCaptureCandidates' = lastAutoCaptureCandidates]_vars

\* With three candidates held, the one at the end was detected again; also a
\* longer text with the same first 160 characters as a held one was detected.
C13_Witness ==
    /\ Ran("agent_end")
    /\ Len(lastAutoCaptureCandidates) = 3
    /\ \/ /\ LastTexts = <<TEXT_DECIDED>>
          /\ Detected(last.logs, 1) = <<TEXT_DECIDED>>
          /\ lastAutoCaptureCandidates[3] = TEXT_DECIDED
       \/ /\ LastTexts = <<LengthProbes[200]>>
          /\ Detected(last.logs, 1) = <<truncateText(LengthProbes[500], 160)>>
          /\ lastAutoCaptureCandidates[3] = truncateText(LengthProbes[500], 160)

-----------------------------------------------------------------------------
\* C14, as claimed: lastAutoCaptureCandidates is always the (up to) 3 most
\* recently detected distinct candidates since the last reset, the most
\* recently detected first.
C14_MostRecentlyDetectedFirst == lastAutoCaptureCandidates = detections

\* what a sequence becomes when each detection not already in it is put at
\* its front and the first 3 are kept
RECURSIVE InsertedNewestFirst(_, _, _)
InsertedNewestFirst(seq, found, k) ==
    IF k > Len(found) THEN seq
    ELSE InsertedNewestFirst(
            IF \E j \in 1..Len(seq) : seq[j] = found[k] THEN seq
            ELSE [j \in 1..(IF Len(seq) < 3 THEN Len(seq) + 1 ELSE 3) |->
                     IF j = 1 THEN found[k] ELSE seq[j - 1]],
            found, k + 1)

\* C14, amended: lastAutoCaptureCandidates holds the most recently inserted
\* candidates, newest insertion first.  A detection whose truncated text is
\* not in the sequence goes to its front and the first 3 are kept; a
\* detection of one that is in the sequence leaves it in its place; nothing
\* but agent_end and the reset of session_start changes the sequence.
C14_MostRecentlyInsertedFirst ==
    [][/\ AgentEndStep =>
            lastAutoCaptureCandidates' =
                InsertedNewestFirst(lastAutoCaptureCandidates,
                                    Detected(last'.logs, 1), 1)
       /\ ~AgentEndStep =>
            \/ lastAutoCaptureCandidates' = lastAutoCaptureCandidates
            \/ last'.handler = "session_start" /\ lastAutoCaptureCandidates' = <<>>]_vars

\* the candidate detected last was already held and stayed behind a newer one
C14_Witness ==
    /\ Ran("agent_end")
    /\ Detected(last.logs, 1) = <<TEXT_DECIDED>>
    /\ lastAutoCaptureCandidates = <<TEXT_STRATEGY, TEXT_DECIDED>>
    /\ detections = <<TEXT_DECIDED, TEXT_STRATEGY>>

-----------------------------------------------------------------------------
\* C15: the length boundary of detection.  No candidate derives from a text
\* shorter than 20 or longer than 500 characters, and of the texts of a turn
\* that match a decision pattern and carry no marker, exactly those of
\* length 20 through 500 are detected, in order, and the one detected last
\* is in lastAutoCaptureCandidates afterwards (an earlier one can have been
\* held already and pushed out by the later ones).
C15_LengthBoundary ==
    /\ \A c \in Candidates : Len(c) >= 20 /\ Len(c) <= 163
    /\ Ran("agent_end") =>
         LET probes == SelectSeq(LastTexts, LAMBDA x : StartsWith(x, "decided"))
             within == SelectSeq(probes, LAMBDA x : Len(x) >= 20 /\ Len(x) <= 500)
         IN  /\ SelectSeq(Detected(last.logs, 1), LAMBDA c : StartsWith(c, "decided"))
                  = [k \in 1..Len(within) |-> truncateText(within[k], 160)]
             /\ Len(within) > 0 =>
                   truncateText(within[Len(within)], 160) \in Candidates

\* texts of 19, 20, 500 and 501 characters arrived in one turn: the two in
\* the middle were detected
C15_Witness ==
    /\ Ran("agent_end")
    /\ LastTexts = <<LengthProbes[19], LengthProbes[20], LengthProbes[500], LengthProbes[501]>>
    /\ \A n \in DOMAIN LengthProbes : Len(LengthProbes[n]) = n
    /\ Detected(last.logs, 1) = <<LengthProbes[20], truncateText(LengthProbes[500], 160)>>
    /\ SubSeq(lastAutoCaptureCandidates, 1, 2) = <<truncateText(LengthProbes[500], 160), LengthProbes[20]>>

-----------------------------------------------------------------------------
\* C16: injected memory is never captured again.  No candidate contains the
\* tag <relevant-memories>, no text of a turn that contains it is detected,
\* and every block before_agent_start returns contains it (and is among the
\* texts a later turn echoes).
C16_NoRecapture ==
    /\ \A c \in Candidates : ~Includes(c, "<relevant-memories>")
    /\ Ran("before_agent_start") /\ IsSome(last.result) =>
         /\ Includes(Val(last.result), "<relevant-memories>")
         /\ Turn(<<Val(last.result)>>) \in CaptureEvents
    /\ Ran("agent_end") =>
         \A k \in 1..Len(LastTexts) :
            Includes(LastTexts[k], "<relevant-memories>") =>
               /\ truncateText(LastTexts[k], 160) \notin Candidates
               /\ \A j \in 1..Len(Detected(last.logs, 1)) :
                     Detected(last.logs, 1)[j] # truncateText(LastTexts[k], 160)

\* after a turn whose prompt was recorded, a block of injected context that
\* has a decision keyword and a length within the limits came back as a
\* message
C16_Witness ==
    /\ Ran("agent_end")
    /\ lastUserPrompt # None
    /\ LastTexts[1] \in RenderedBlocks
    /\ Len(LastTexts[1]) >= 20 /\ Len(LastTexts[1]) <= 500
    /\ MatchesDecisionPattern(LastTexts[1])
    /\ Detected(last.logs, 1) = <<>>

-----------------------------------------------------------------------------
\* C17: in a run of before_agent_start that has its semantic results, list
\* is invoked if and only if there are none, and no returned block has both
\* a Relevant Decisions and a Recent Decisions section.
C17_ListIffNoSemantic ==
    Ran("before_agent_start") /\ IsSome(last.semantic) =>
        /\ Invoked(last, "list(3)") <=> Val(last.semantic) = 0
        /\ IsSome(last.result) =>
              ~(/\ Includes(Val(last.result), "## Relevant Decisions")
                /\ Includes(Val(last.result), "## Recent Decisions"))

-----------------------------------------------------------------------------
\* C18: a failing backend operation degrades to partial data.  When
\* loadCheckpoint throws in before_agent_start the checkpoint counts as
\* absent: list is still invoked when there are no semantic results, and a
\* block is returned when there are semantic results.  When list throws the
\* list counts as empty: a block is returned when a checkpoint was loaded.
C18_DegradesToPartialData ==
    Ran("before_agent_start") =>
        /\ last.threwAt = "loadCheckpoint" =>
              /\ Val(last.semantic) = 0 => Invoked(last, "list(3)")
              /\ Val(last.semantic) > 0 => IsSome(last.result)
        /\ last.threwAt = "list" =>
              (IsSome(Val(last.loaded)) => IsSome(last.result))

-----------------------------------------------------------------------------
\* C19: a failing search is contained.  In a run of before_agent_start that
\* got past initialisation, suggest is invoked (limit 3, threshold 0.5) if
\* and only if the prompt has at least 5 characters; when it throws, the run
\* has no semantic results, goes on to loadCheckpoint and list (limit 3), and
\* returns a block when the checkpoint or the recent list is non-empty.
C19_SearchFailureContained ==
    Ran("before_agent_start") /\ IsSome(last.semantic) =>
        /\ Invoked(last, "suggest(3,0.5)") <=>
              (IsSome(lastUserPrompt) /\ Len(Val(lastUserPrompt)) >= 5)
        /\ HasLog(last, "error: Semantic search error") =>
              /\ Val(last.semantic) = 0
              /\ Invoked(last, "loadCheckpoint")
              /\ IsSome(last.loaded) =>
                    /\ Invoked(last, "list(3)")
                    /\ (IsSome(Val(last.loaded))
                        \/ (IsSome(last.recent) /\ Val(last.recent) > 0))
                          => IsSome(last.result)

-----------------------------------------------------------------------------
\* a tool call completed, with its parameters and the text it returned
RanTool == last.handler \in {"mama_search", "mama_save", "mama_load_checkpoint",
                             "mama_update"}
BackendFailed ==
    last.threwAt \in {"suggest", "save", "saveCheckpoint", "loadCheckpoint", "list",
                      "updateOutcome"}
\* a required parameter of the call is missing or empty
MissingRequired ==
    /\ IsSome(last.event)
    /\ LET params == Val(last.event)
       IN  \/ last.handler = "mama_search" /\ Trim(Str(params.query)) = ""
           \/ /\ last.handler = "mama_save"
              /\ IF params.type = Some("checkpoint") THEN ~Truthy(params.summary)
                 ELSE ~Truthy(params.topic) \/ ~Truthy(params.decision)
                      \/ ~Truthy(params.reasoning)
           \/ last.handler = "mama_update"
              /\ (~Truthy(params.id) \/ ~Truthy(params.outcome))

\* C20, as claimed: every tool call returns one text and does not throw; the
\* text starts with 'MAMA error: ' when initialisation or a backend call
\* failed, and with 'Error: ' when a required parameter is missing.
C20_ToolsReturnText ==
    RanTool =>
        /\ last.promise = "resolved"
        /\ IsSome(last.result)
        /\ last.initThrew \/ BackendFailed => StartsWith(Val(last.result), "MAMA error: ")
        /\ MissingRequired => StartsWith(Val(last.result), "Error: ")

\* C20, amended: every tool call returns one text and does not throw; the
\* text starts with 'MAMA error: ' when initialisation or a backend call
\* failed, and with 'Error: ' when a required parameter is missing and
\* initialisation did not fail (initialisation comes first).
C20_ToolsReturnTextInitFirst ==
    RanTool =>
        /\ last.promise = "resolved"
        /\ IsSome(last.result)
        /\ last.initThrew \/ BackendFailed => StartsWith(Val(last.result), "MAMA error: ")
        /\ MissingRequired /\ ~last.initThrew => StartsWith(Val(last.result), "Error: ")

\* backend construction failed with something that is not an Error, in a call
\* of mama_update without an id
C20_Witness ==
    /\ Ran("mama_update")
    /\ MissingRequired
    /\ last.initThrew
    /\ last.result = Some("MAMA error: backend down")

-----------------------------------------------------------------------------
\* the call fails validation: mama_search whose query is missing or all
\* white space, mama_save of a checkpoint without a summary or of a decision
\* without topic, decision or reasoning, mama_update without an id
FailsValidation ==
    /\ IsSome(last.event)
    /\ LET params == Val(last.event)
       IN  \/ /\ last.handler = "mama_search"
              /\ \A k \in 1..Len(Str(params.query)) : IsSpace(CharAt(Str(params.query), k))
           \/ /\ last.handler = "mama_save"
              /\ IF params.type = Some("checkpoint") THEN Str(params.summary) = ""
                 ELSE "" \in {Str(params.topic), Str(params.decision),
                              Str(params.reasoning)}
           \/ last.handler = "mama_update" /\ Str(params.id) = ""

\* C21, as claimed: a tool call that fails validation returns a text that
\* starts with 'Error: ' and invokes no backend operation.
C21_ValidationReturnsError ==
    RanTool /\ FailsValidation =>
        /\ IsSome(last.result) /\ StartsWith(Val(last.result), "Error: ")
        /\ last.calls = <<>>

\* C21, amended: a tool call that fails validation invokes no backend
\* operation (neither save, saveCheckpoint, suggest nor updateOutcome), and
\* returns a text that starts with 'Error: ' unless initialisation failed.
C21_ValidationCallsNothing ==
    RanTool /\ FailsValidation =>
        /\ last.calls = <<>>
        /\ last.saved = None
        /\ ~last.initThrew =>
              IsSome(last.result) /\ StartsWith(Val(last.result), "Error: ")

\* a search for a query of white space was refused after initialisation
C21_Witness ==
    /\ Ran("mama_search")
    /\ Val(last.event).query = Some("  ")
    /\ last.initCalled /\ ~last.initThrew
    /\ last.result = Some("Error: query required")
    /\ last.calls = <<>>

-----------------------------------------------------------------------------
\* mama_update called updateOutcome: what the caller supplied and what the
\* backend was handed
Updated == Ran("mama_update") /\ Invoked(last, "updateOutcome")
ReasonRouted ==
    LET supplied == Val(last.event)
        handed == Val(last.saved)
        reason == IF IsSome(supplied.reason) THEN Val(supplied.reason) ELSE ""
    IN  /\ supplied.outcome = Some("failed") =>
              handed.failure_reason = Some(reason) /\ handed.limitation = None
        /\ supplied.outcome = Some("partial") =>
              handed.limitation = Some(reason) /\ handed.failure_reason = None
        /\ supplied.outcome = Some("success") =>
              handed.failure_reason = None /\ handed.limitation = None

\* C22, as claimed: the reason goes to failure_reason for failed, to
\* limitation for partial, nowhere for success, and the outcome handed to
\* updateOutcome is the value the caller supplied.
C22_OutcomeAsSupplied ==
    Updated => ReasonRouted /\ Val(last.saved).outcome = Val(Val(last.event).outcome)

\* C22, amended: the reason goes to failure_reason for failed, to limitation
\* for partial, nowhere for success, and the outcome handed to updateOutcome
\* is the supplied value in upper case (SUCCESS, FAILED or PARTIAL).
C22_OutcomeUpperCased ==
    Updated =>
        /\ ReasonRouted
        /\ Val(last.saved).id = Val(Val(last.event).id)
        /\ Val(last.saved).outcome =
              [o \in {"success", "failed", "partial"} |->
                  IF o = "success" THEN "SUCCESS"
                  ELSE IF o = "failed" THEN "FAILED" ELSE "PARTIAL"]
                      [Val(Val(last.event).outcome)]

\* an update to failed with a reason reached the backend
C22_Witness ==
    /\ Updated
    /\ Val(last.event).outcome = Some("failed")
    /\ Val(last.event).reason = Some("flaky tests")
    /\ Val(last.saved).failure_reason = Some("flaky tests")
    /\ Val(last.saved).outcome = "FAILED"
    /\ last.result = Some("Decision decision_1 updated to FAILED")

-----------------------------------------------------------------------------
\* C23, as claimed: lastUserPrompt, when present, has at most 200
\* characters, and every entry of lastAutoCaptureCandidates at most 160.
C23_CapsRespected ==
    /\ IsSome(lastUserPrompt) => Len(Val(lastUserPrompt)) <= 200
    /\ \A c \in Candidates : Len(c) <= 160

\* the string is within its cap, or is cap characters followed by `...`
CutTo(str, cap) ==
    \/ Len(str) <= cap
    \/ Len(str) = cap + 3 /\ SubSeq(str, cap + 1, cap + 3) = "..."

\* C23, amended: a stored string is cut to its cap and, when it was cut,
\* ends in an ellipsis of 3 more characters: lastUserPrompt, when present,
\* has at most 203 characters and every entry of lastAutoCaptureCandidates
\* at most 163.
C23_CapsPlusEllipsis ==
    /\ IsSome(lastUserPrompt) => CutTo(Val(lastUserPrompt), 200)
    /\ \A c \in Candidates : CutTo(c, 160)

\* a prompt of 500 characters and a text of 500 characters are held, cut
C23_Witness ==
    /\ IsSome(lastUserPrompt)
    /\ Len(Val(lastUserPrompt)) = 203
    /\ \E c \in Candidates : Len(c) = 163

-----------------------------------------------------------------------------
\* the positions of a text at which a part of it starts
Hits(text, part) ==
    {i \in 1..(Len(text) - Len(part) + 1) : SubSeq(text, i, i + Len(part) - 1) = part}
Before(earlier, later) == \A i \in earlier, j \in later : i < j

\* C24: the render order.  Every block before_agent_start returns starts
\* with the opening tag and ends with the closing tag, each found once, and
\* between them has, each at most once and in this order, the Relevant
\* Decisions section iff there are semantic results, the Last Checkpoint
\* section iff a checkpoint was loaded, the Recent Decisions section iff the
\* recent list is non-empty, and the compaction note iff the flag was set.
C24_RenderOrder ==
    Ran("before_agent_start") /\ IsSome(last.result) =>
        LET block == Val(last.result)
            open == Hits(block, "<relevant-memories>\n")
            relevant == Hits(block, "## Relevant Decisions (semantic match)\n")
            checkpoint == Hits(block, "## Last Checkpoint (")
            recent == Hits(block, "## Recent Decisions\n")
            note == Hits(block, "\n**Note:** Context was recently compressed.")
            close == Hits(block, "</relevant-memories>")
        IN  /\ open = {1}
            /\ close = {Len(block) - Len("</relevant-memories>") + 1}
            /\ \A section \in {relevant, checkpoint, recent, note} :
                  Cardinality(section) <= 1
            /\ relevant # {} <=> Val(last.semantic) > 0
            /\ checkpoint # {} <=> IsSome(Val(last.loaded))
            /\ recent # {} <=> Val(last.recent) > 0
            /\ note # {} <=> last.flagRead = Some(TRUE)
            /\ Before(open, relevant) /\ Before(open, checkpoint)
            /\ Before(relevant, checkpoint) /\ Before(relevant, recent)
            /\ Before(checkpoint, recent) /\ Before(checkpoint, note)
            /\ Before(recent, note) /\ Before(relevant, note)
            /\ Before(note, close) /\ Before(recent, close)
            /\ Before(checkpoint, close) /\ Before(relevant, close)

\* after a compaction a block with a checkpoint, recent decisions and the
\* note was returned
C24_Witness ==
    /\ Ran("before_agent_start")
    /\ IsSome(last.result)
    /\ IsSome(last.loaded) /\ IsSome(Val(last.loaded))
    /\ Val(last.recent) > 0
    /\ last.flagRead = Some(TRUE)
    /\ Hits(Val(last.result), "## Last Checkpoint (") # {}
    /\ Hits(Val(last.result), "## Recent Decisions\n") # {}
    /\ Hits(Val(last.result), "**Note:**") # {}

-----------------------------------------------------------------------------
RECURSIVE OperationOf(_)
\* the backend operation of a recorded call: its name without the arguments
OperationOf(call) ==
    IF call = "" \/ SubSeq(call, 1, 1) = "(" THEN ""
    ELSE SubSeq(call, 1, 1) \o OperationOf(SubSeq(call, 2, Len(call)))

\* C25: no operation is retried within an event.  In one invocation of a
\* lifecycle handler no two backend calls are of the same operation, and an
\* operation that threw was called once and is the last call of the handler.
C25_NoRetry ==
    last.handler \in {"session_start", "before_agent_start", "agent_end",
                      "session_end", "before_compaction", "after_compaction"} =>
        /\ \A j, k \in 1..Len(last.calls) :
              j < k => OperationOf(last.calls[j]) # OperationOf(last.calls[k])
        /\ last.threwAt \in {"loadCheckpoint", "list", "saveCheckpoint"} =>
              /\ Len(last.calls) > 0
              /\ OperationOf(last.calls[Len(last.calls)]) = last.threwAt
        /\ HasLog(last, "error: Semantic search error") =>
              Cardinality({k \in 1..Len(last.calls) :
                              OperationOf(last.calls[k]) = "suggest"}) = 1

\* a session_end whose saveCheckpoint threw after loadCheckpoint and list
\* had answered
C25_Witness ==
    /\ Ran("session_end")
    /\ last.threwAt = "saveCheckpoint"
    /\ Len(last.calls) = 3
    /\ OperationOf(last.calls[2]) = "list"

-----------------------------------------------------------------------------
RECURSIVE Bulleted(_, _)
\* the candidates from the k-th on, each on a line of its own after a dash
Bulleted(candidates, k) ==
    IF k > Len(candidates) THEN ""
    ELSE "\n- " \o candidates[k] \o Bulleted(candidates, k + 1)

EndsWith(text, part) ==
    Len(part) <= Len(text)
    /\ SubSeq(text, Len(text) - Len(part) + 1, Len(text)) = part

\* C26: the checkpoint text session_end composes reflects SessionState as it
\* is when the event arrives.  The summary is, line by line, the end time,
\* the session start iff sessionStartedAt is set, the last prompt iff
\* lastUserPrompt is set, the last compaction iff lastCompactionAt is set and
\* the count of recent records, followed by a topics line iff some topic is
\* not blank.  The next steps start with the review-candidates block, which
\* lists exactly the candidates in stored order, iff there are candidates;
\* then comes the review-decisions line, or the no-new-decisions line when
\* the count is zero, and the text ends with the resume instruction.
C26_ComposedStep ==
    (last.handler = "none" /\ last'.handler = "session_end" /\ IsSome(last'.saved)) =>
        LET summary == Val(last'.saved).summary
            nextSteps == Val(last'.saved).nextSteps
            list == Val(last'.listed)
            count == ToString(Len(list))
            head ==
                "Session ended: " \o toISOString(now)
                \o (IF IsSome(sessionStartedAt)
                    THEN "\nSession started: " \o Val(sessionStartedAt) ELSE "")
                \o (IF IsSome(lastUserPrompt)
                    THEN "\nLast user prompt: " \o Val(lastUserPrompt) ELSE "")
                \o (IF IsSome(lastCompactionAt)
                    THEN "\nLast compaction: " \o Val(lastCompactionAt) ELSE "")
                \o "\nDecisions recorded (recent): " \o count
            titled == \E k \in 1..Len(list) : NonBlank(list[k].topic)
            block ==
                IF Len(lastAutoCaptureCandidates) > 0
                THEN "Review auto-capture candidates:"
                     \o Bulleted(lastAutoCaptureCandidates, 1) \o "\n\n"
                ELSE ""
            rest == SubSeq(nextSteps, Len(block) + 1, Len(nextSteps))
            resume == "\n\nOn next session start: load checkpoint and continue from the last prompt."
        IN  /\ StartsWith(summary, head)
            /\ IF titled
               THEN StartsWith(SubSeq(summary, Len(head) + 1, Len(summary)),
                               "\nRecent topics: ")
               ELSE summary = head
            /\ StartsWith(nextSteps, block)
            /\ Hits(nextSteps, "Review auto-capture candidates:") # {}
                  <=> Len(lastAutoCaptureCandidates) > 0
            /\ IF Len(list) = 0
               THEN rest = "No new decisions recorded in this session." \o resume
               ELSE /\ StartsWith(rest, "Review recent decisions (count: " \o count \o ")")
                    /\ EndsWith(rest, resume)
                    /\ Hits(rest, "No new decisions") = {}
C26_Composed == [][C26_ComposedStep]_vars

\* a session that started, had a prompt, a compaction and a candidate ended
\* with a checkpoint, the backend listing one decision with a blank topic
C26_Witness ==
    /\ Ran("session_end")
    /\ IsSome(last.saved)
    /\ IsSome(sessionStartedAt) /\ IsSome(lastUserPrompt) /\ IsSome(lastCompactionAt)
    /\ Len(lastAutoCaptureCandidates) > 0
    /\ Len(Val(last.listed)) = 1
    /\ ~NonBlank(Val(last.listed)[1].topic)
    /\ Hits(Val(last.saved).summary, "Recent topics") = {}
    /\ Hits(Val(last.saved).nextSteps, "Review auto-capture candidates:") # {}

-----------------------------------------------------------------------------
\* The characters i..j of the text are a link annotation: `builds_on:` or
\* `debates:` in any letter case, white space, and an identifier that ends
\* at the first character that is not of an identifier; or `synthesizes:`,
\* white space, and a bracketed list that ends at the first closing bracket.
IsAnnotation(text, i, j) ==
    LET label(word) ==
            /\ i + Len(word) - 1 <= Len(text)
            /\ Lower(SubSeq(text, i, i + Len(word) - 1)) = word
        single(word) ==
            /\ label(word)
            /\ \E a \in (i + Len(word))..j :
                  /\ \A k \in (i + Len(word))..(a - 1) : IsSpace(CharAt(text, k))
                  /\ \A k \in a..j : IsIdChar(CharAt(text, k))
            /\ j = Len(text) \/ ~IsIdChar(CharAt(text, j + 1))
        list ==
            /\ label("synthesizes:")
            /\ CharAt(text, j) = "]"
            /\ \E a \in (i + 12)..(j - 2) :
                  /\ \A k \in (i + 12)..(a - 1) : IsSpace(CharAt(text, k))
                  /\ CharAt(text, a) = "["
                  /\ \A k \in (a + 1)..(j - 1) : CharAt(text, k) # "]"
    IN  i <= j /\ j <= Len(text) /\ (single("builds_on:") \/ single("debates:") \/ list)

Annotations(text) ==
    {span \in (1..Len(text)) \X (1..Len(text)) : IsAnnotation(text, span[1], span[2])}

\* C27: for every reasoning text and budget, formatReasoning returns the
\* text cut to the budget, with '...' when the text is longer, and, iff the
\* text has a link annotation and the first one does not lie wholly within
\* the part that was kept, that annotation after it on a new line with the
\* link glyph; what is appended is the annotation alone, without the text
\* that follows its identifier or list.
C27_LinkExtraction ==
    pf.fn = "formatReasoning" =>
        LET text == pf.reasoning
            cut == IF Len(text) > pf.maxLen
                   THEN SubSeq(text, 1, pf.maxLen) \o "..." ELSE text
            found == Annotations(text)
        IN  IF found = {} THEN pf.out = cut
            ELSE LET first == CHOOSE span \in found :
                                 \A other \in found : span[1] <= other[1]
                     annotation == SubSeq(text, first[1], first[2])
                 IN  /\ \A other \in found : other[1] = first[1] => other = first
                     /\ IF first[2] <= pf.maxLen \/ Len(text) <= pf.maxLen
                        THEN pf.out = cut
                        ELSE pf.out = cut \o "\n  (link) " \o annotation
                     /\ Includes(cut, annotation)
                           <=> (first[2] <= pf.maxLen \/ Len(text) <= pf.maxLen)

\* the test of over-matching: the annotation lies behind the cut and is
\* appended without the prose after its identifier
C27_Witness ==
    /\ pf.fn = "formatReasoning"
    /\ pf.reasoning = "Some long preamble text that will be truncated. builds_on: base_idea and then more text"
    /\ pf.maxLen = 30
    /\ pf.out = "Some long preamble text that w...\n  (link) builds_on: base_idea"

-----------------------------------------------------------------------------
\* the k-th initMAMA call in flight is suspended awaiting initDB
Suspended(k) == k \in 1..Len(flight.calls) /\ flight.calls[k].at = "initDB"

\* C28: the init-once check does not hold off a call that overlaps another.
\* A call of initMAMA that starts while another is suspended awaiting initDB
\* and `initialized` is still false passes the check and runs backend
\* construction as well: it writes MAMA_DB_PATH with its own path and invokes
\* initDB, which is then invoked more than once; and every call that resumes
\* from a successful initDB assigns its own path to initialDbPath, whether
\* or not another call has assigned it before.
C28_OverlapStep ==
    LET n == Len(flight.calls)
    IN  /\ (Len(flight'.calls) = n + 1 /\ ~initialized /\ \E k \in 1..n : Suspended(k)) =>
              /\ flight'.calls[n + 1].at = "initDB"
              /\ MAMA_DB_PATH' = Some(flight'.calls[n + 1].dbPath)
              /\ flight'.initDB = flight.initDB + 1
              /\ flight'.initDB > 1
        /\ \A k \in 1..n :
              (Suspended(k) /\ flight'.calls[k].at = "returned") =>
                  /\ initialized'
                  /\ initialDbPath' = Some(flight.calls[k].dbPath)
C28_OverlapConstructsAgain == [][C28_OverlapStep]_vars

\* two overlapping calls with different configured paths have both
\* returned: initDB was invoked twice, MAMA_DB_PATH holds the path of the
\* second call, and initialDbPath was assigned both paths, the last one
\* assigned being the path of the call that resumed last
C28_Witness ==
    /\ Len(flight.calls) = 2
    /\ flight.calls[1].at = "returned" /\ flight.calls[2].at = "returned"
    /\ flight.calls[1].dbPath # flight.calls[2].dbPath
    /\ flight.initDB = 2
    /\ Len(flight.written) = 2
    /\ flight.written[1] # flight.written[2]
    /\ initialDbPath = Some(flight.written[2])
    /\ MAMA_DB_PATH = Some(flight.calls[2].dbPath)

-----------------------------------------------------------------------------
Lifecycles == {"session_start", "before_agent_start", "agent_end",
               "session_end", "before_compaction", "after_compaction"}

\* C29: when initMAMA fails in a lifecycle handler, the handler invokes no
\* backend operation, SessionState (sessionStartedAt, lastUserPrompt,
\* lastCompactionAt, lastAutoCaptureCandidates, compactionOccurred) is after
\* the event what it was before it, and `initialized` is false before and
\* after.
C29_FailedInitStep ==
    (last.handler = "none" /\ last'.handler \in Lifecycles /\ last'.initThrew) =>
        /\ last'.calls = <<>>
        /\ last'.saved = None
        /\ UNCHANGED sessionVars
        /\ UNCHANGED store
        /\ ~initialized /\ ~initialized'
C29_FailedInitTouchesNothing == [][C29_FailedInitStep]_vars

\* before_compaction ran with a backend whose initDB failed: the modules are
\* loaded and MAMA_DB_PATH is written, and the session state is as the module
\* was loaded with
C29_Witness ==
    /\ Ran("before_compaction")
    /\ last.initThrew /\ last.initDB
    /\ ~initialized
    /\ IsSome(mama)
    /\ MAMA_DB_PATH = Some(last.dbPath)
    /\ ~compactionOccurred
    /\ lastCompactionAt = None

-----------------------------------------------------------------------------
\* a handler or tool call completes in this step
Completes == last.handler = "none" /\ last'.handler # "none"

\* backend construction ran in the call that completes: MAMA_DB_PATH is
\* written with the resolved path, and loading the modules threw or initDB
\* was invoked
ConstructsAgain ==
    /\ last'.initCalled
    /\ MAMA_DB_PATH' = Some(last'.dbPath)
    /\ last'.initThrew \/ last'.initDB
    /\ initialized' <=> ~last'.initThrew

\* C30 as stated: while `initialized` is false, the next handler or tool
\* call, whichever it is, runs backend construction again.
C30_NextCallConstructs ==
    [][(Completes /\ ~initialized) => ConstructsAgain]_vars

\* C30: a failed initialization is not latched.  A call whose initMAMA fails
\* leaves `initialized` false, and while it is false every handler or tool
\* call that gets to initMAMA runs backend construction again; so after a
\* failure, events that keep arriving at a backend that has become
\* constructible lead to a successful initialization.  Construction
\* succeeds only from the uninitialized state, and once `initialized` is set
\* no call invokes initDB: it succeeds at most once.
C30_FailureNotLatched ==
    /\ [][/\ (Completes /\ last'.initThrew) => ~initialized'
          /\ (Completes /\ ~initialized /\ last'.initCalled) => ConstructsAgain
          /\ (Completes /\ initialized) => (~last'.initDB /\ initialized')]_vars
    /\ (last.initThrew ~> (initialized /\ IsSome(initialDbPath)))

\* session_start, registered without a path, constructed the backend at the
\* path that an agent_end registered with /a.db had written to MAMA_DB_PATH
\* when its own construction failed
C30_Witness ==
    /\ Ran("session_start")
    /\ last.initDB /\ ~last.initThrew
    /\ initialized
    /\ last.dbPath = "/a.db"
    /\ initialDbPath = Some("/a.db")

-----------------------------------------------------------------------------
\* C31: session_end and after_compaction leave SessionState unchanged.
\* Whatever the state before and whatever the backend returns or throws,
\* sessionStartedAt, lastUserPrompt, lastCompactionAt,
\* lastAutoCaptureCandidates and compactionOccurred have after either handler
\* the values they had before it; and after_compaction writes nothing to the
\* backend: it calls only loadCheckpoint and list, and the stored checkpoint
\* stays as it was.
C31_FrameStep ==
    /\ (Completes /\ last'.handler \in {"session_end", "after_compaction"}) =>
          UNCHANGED sessionVars
    /\ (Completes /\ last'.handler = "after_compaction") =>
          /\ \A k \in 1..Len(last'.calls) :
                OperationOf(last'.calls[k]) \in {"loadCheckpoint", "list"}
          /\ last'.saved = None
          /\ UNCHANGED store
C31_SessionStateFramed == [][C31_FrameStep]_vars

\* after a session with a prompt, a candidate and a compaction whose flag is
\* still set, after_compaction ran through both of its reads
C31_Witness ==
    /\ Ran("after_compaction")
    /\ last.calls = <<"loadCheckpoint", "list(5)">>
    /\ last.threwAt = ""
    /\ compactionOccurred
    /\ IsSome(lastCompactionAt)
    /\ IsSome(lastUserPrompt)
    /\ Len(lastAutoCaptureCandidates) > 0

-----------------------------------------------------------------------------
\* C32: under one-at-a-time delivery, whenever compactionOccurred is true
\* lastCompactionAt is set.  (The converse does not hold: the flag is cleared
\* by the next before_agent_start, and stays false when the checkpoint of
\* before_compaction could not be saved, while lastCompactionAt stays set.)
C32_FlagImpliesStamp ==
    compactionOccurred => IsSome(lastCompactionAt)

\* before_compaction has saved its checkpoint: the flag is set and
\* lastCompactionAt holds the time of the event
C32_Witness ==
    /\ Ran("before_compaction")
    /\ last.threwAt = ""
    /\ compactionOccurred
    /\ lastCompactionAt = Some(toISOString(last.at))

-----------------------------------------------------------------------------
\* the handlers in flight that returned a block with the compaction note
Noted ==
    {k \in 1..Len(flight.calls) :
        /\ flight.calls[k].at = "returned"
        /\ IsSome(flight.calls[k].result)
        /\ Includes(Val(flight.calls[k].result), "**Note:** Context was recently compressed")}

\* C33: the flag is tested and cleared without an await in between.  Of the
\* before_agent_start handlers that run after one before_compaction,
\* however they interleave at their awaits, at most one returns a block
\* with the compaction note.
C33_AtMostOneNote == Cardinality(Noted) <= 1

\* two handlers overlapped and both returned a block; the one that was
\* called second finished first and has the note, the other has none
C33_Witness ==
    /\ Len(flight.calls) >= 2
    /\ flight.calls[2].overlaps
    /\ IsSome(flight.calls[1].result) /\ IsSome(flight.calls[2].result)
    /\ Noted = {2}
    /\ ~compactionOccurred

-----------------------------------------------------------------------------
\* the latest stored checkpoint is the one before_compaction wrote
PreCompactionStored ==
    /\ IsSome(store)
    /\ StartsWith(Val(store).summary, "Pre-compaction checkpoint: ")
    /\ Val(store).next_steps = "Resume after compaction - check previous context"

\* C34: a pre-compaction checkpoint suppresses the session-end checkpoint.
\* When the latest stored checkpoint is the one before_compaction wrote, a
\* session_end handled less than 5 minutes (300000 ms) after it, to which
\* loadCheckpoint returns that checkpoint, calls neither list nor
\* saveCheckpoint: the stored checkpoint stays the pre-compaction one, and
\* the session summary and the candidates are not written.
C34_SuppressedStep ==
    (/\ Completes
     /\ last'.handler = "session_end"
     /\ PreCompactionStored
     /\ last'.loaded = Some(store)
     /\ now - DateGetTime(Val(store).timestamp).ms < 300000) =>
        /\ last'.calls = <<"loadCheckpoint">>
        /\ last'.saved = None
        /\ HasLog(last', "log: Session end: Skipping auto-save")
        /\ store' = store
C34_PreCompactionSuppresses == [][C34_SuppressedStep]_vars

\* a session with a prompt and a candidate ended within 5 minutes of its
\* compaction: nothing was written and the pre-compaction checkpoint is
\* still the latest
C34_Witness ==
    /\ Ran("session_end")
    /\ PreCompactionStored
    /\ last.loaded = Some(store)
    /\ last.at - DateGetTime(Val(store).timestamp).ms < 300000
    /\ last.calls = <<"loadCheckpoint">>
    /\ IsSome(lastUserPrompt)
    /\ Len(lastAutoCaptureCandidates) > 0

====
